---- MODULE Spec2Model ----
(***************************************************************************)
(* A model of PyInstaller/building/utils.py: the binary cache (checkCache, *)
(* cacheDigest, applyRedirects), the manifest normalizer                   *)
(* (format_binaries_and_datas), the extension-suffix fixup                 *)
(* (add_suffix_to_extension), the rebuild-need predicates                  *)
(* (_check_guts_eq, _check_guts_toc_mtime, _check_guts_toc), the bytecode  *)
(* records (compile_pymodule, strip_paths_in_code) and the pywin32 fixup   *)
(* (postprocess_binaries_toc_pywin32).                                     *)
(*                                                                         *)
(* Conventions.  A path is a sequence of segments.  In the cache model a   *)
(* segment is a tuple of strings (the parts a name is formatted from:      *)
(* <<"x", ".dll">>, <<"bincache", "1", "0", "py310", "64bit">>).  Python's *)
(* None is the empty tuple for optional paths, and the empty string for    *)
(* optional strings (the code only tests their truth value).  In the       *)
(* models of the bytecode records and of the pywin32 fixup a string is the *)
(* sequence of its characters, or of the tokens the code tells apart.      *)
(***************************************************************************)
EXTENDS Integers, Sequences, FiniteSets, TLC

VARIABLES
    platform,   \* "win", "cygwin", "darwin" or "linux": fixes is_win, is_cygwin, is_darwin
    interp,     \* the running interpreter: [pyver, arch]
    CONF,       \* the build configuration checkCache reads
    srcBytes,   \* the source files: path -> bytes
    fs,         \* the cache root on disk: path -> directory, cached file or index.dat
    nCalls,     \* number of top-level checkCache calls so far
    nEdits,     \* number of changes made between calls (sources, configuration, interpreter)
    focus,      \* the arguments (file and flag tuple) of the behaviour's checkCache calls
    last,       \* the record of the latest top-level checkCache call
    edits,      \* what changed since that call: [src, redirects, private]
    touched     \* for every call past the no-op test, nested calls included:
                \* <<cache-key tuple, cache directory, cached-file path, index path>>

cacheVars == <<platform, interp, CONF, srcBytes, fs, nCalls, nEdits, focus, last, edits, touched>>

VARIABLES
    other       \* the arguments and the interpreter of a second, different checkCache call

VARIABLES
    fmtArgs,    \* format_binaries_and_datas: [binaries_or_datas, workingdir]
    fmtResult   \* ... and what the call gave: [done, err, toc]

VARIABLES
    sfxArgs,    \* add_suffix_to_extension: the TOC entry [dest_name, src_name, typecode]
    sfxResult   \* ... and the entries the successive runs of the fixup returned

VARIABLES
    gutsArgs,   \* the rebuild-need predicates: [old_toc, new_toc, last_build, mt]
    gutsResult  \* ... and what the predicate called gave: [fn, ret, log]

VARIABLES
    pyc,        \* compile_pymodule: the module, the work directory and the latest call
    strp,       \* strip_paths_in_code: [co, paths] and the code object returned
    pywin,      \* postprocess_binaries_toc_pywin32: the TOC and the lists successive runs gave
    race,       \* two processes inside checkCache in one cache directory
    probe       \* what the environment decided during the latest checkCache calls

moreVars == <<pyc, strp, pywin, race, probe>>

formatVars == <<fmtArgs, fmtResult>>
suffixVars == <<sfxArgs, sfxResult>>
gutsVars == <<gutsArgs, gutsResult>>
pureVars == <<formatVars, suffixVars, gutsVars>>

vars == <<cacheVars, other, pureVars, moreVars>>

----------------------------------------------------------------------------
(* Bounds of the model. *)

\* checkCache calls and changes between them in one behaviour
MaxSteps == 3
\* pairs in one format_binaries_and_datas call
MaxPairs == 2
\* successive runs of add_suffix_to_extension, or of postprocess_binaries_toc_pywin32,
\* on their own output
MaxRuns == 2
\* entries in a TOC handed to a rebuild-need predicate or to
\* postprocess_binaries_toc_pywin32
MaxToc == 2
\* largest modification time and build time
MaxTime == 2

----------------------------------------------------------------------------
(* Platform flags (PyInstaller.compat). *)

is_win == platform = "win"
is_cygwin == platform = "cygwin"
is_darwin == platform = "darwin"

Platforms == {"win", "cygwin", "darwin", "linux"}

----------------------------------------------------------------------------
(* Optional values and paths. *)

None == <<>>
Some(x) == <<x>>

Join(a, b) == a \o b
Basename(p) == <<p[Len(p)]>>
Dirname(p) == SubSeq(p, 1, Len(p) - 1)

\* str.lower() on the names the model uses
LowerStr(s) ==
    CASE s = "X" -> "x"
      [] s = ".DLL" -> ".dll"
      [] s = "Pkg" -> "pkg"
      [] OTHER -> s
LowerSeg(seg) == [i \in 1..Len(seg) |-> LowerStr(seg[i])]
LowerPath(p) == [i \in 1..Len(p) |-> LowerSeg(p[i])]

\* os.path.normcase: lower-cases on Windows, the identity elsewhere
normcase(p) == IF is_win THEN LowerPath(p) ELSE p

\* the extension of the last segment of p, lower-cased: os.path.splitext(p.lower())[1]
LowerExt(p) ==
    LET seg == p[Len(p)]
    IN  IF Len(seg) >= 2 THEN LowerStr(seg[Len(seg)]) ELSE ""

----------------------------------------------------------------------------
(* The files of the model. *)

XDLL == << <<"a">>, <<"X", ".DLL">> >>
MANIFEST == << <<"a">>, <<"app", ".manifest">> >>
SrcFiles == {XDLL, MANIFEST}

HINT == << <<"Pkg">>, <<"x", ".dll">> >>

OtherBytes(b) == IF b = <<1>> THEN <<2>> ELSE <<1>>

FileRec(bytes, res, ops, mode) ==
    [kind |-> "file", bytes |-> bytes, res |-> res, ops |-> ops, mode |-> mode, index |-> <<>>]
DirRec ==
    [kind |-> "dir", bytes |-> <<>>, res |-> <<>>, ops |-> <<>>, mode |-> "", index |-> <<>>]
IndexRec(ix) ==
    [kind |-> "index", bytes |-> <<>>, res |-> <<>>, ops |-> <<>>, mode |-> "", index |-> ix]

Exists(f, p) == p \in DOMAIN f
WriteFile(f, p, rec) == [q \in DOMAIN f \cup {p} |-> IF q = p THEN rec ELSE f[q]]
RemoveFile(f, p) == [q \in DOMAIN f \ {p} |-> f[q]]
\* os.makedirs: the directory and every missing ancestor
makedirs(f, p) ==
    [q \in DOMAIN f \cup {SubSeq(p, 1, k) : k \in 1..Len(p)} |->
        IF q \in DOMAIN f THEN f[q] ELSE DirRec]

----------------------------------------------------------------------------
(* Windows manifests: winmanifest.Manifest and bindepend's redirects. *)

CRT == "Microsoft.VC90.CRT"
COMMON_CONTROLS == "Microsoft.Windows.Common-Controls"

Dep(name, version, token) == [name |-> name, version |-> version, publicKeyToken |-> token]

\* Manifest.parse_string: the manifest a byte string holds
ParseManifest(bytes) ==
    IF bytes = <<1>>
    THEN [publicKeyToken |-> "tok",
          dependentAssemblies |-> <<Dep(CRT, 1, "tok"), Dep(COMMON_CONTROLS, 1, "tok")>>]
    ELSE [publicKeyToken |-> "",
          dependentAssemblies |-> <<Dep(CRT, 2, "tok")>>]

\* winmanifest.GetManifestResources: the RT_MANIFEST resource embedded in a binary
EmbeddedManifest(bytes) == IF bytes = <<1>> THEN Some(ParseManifest(bytes)) ELSE None

Redirect(name, old, new) == [name |-> name, oldVersion |-> old, newVersion |-> new]
R_CRT == Redirect(CRT, 1, 3)
R_CC == Redirect(COMMON_CONTROLS, 1, 4)
RedirectConfigs == {<<>>, <<R_CRT>>, <<R_CRT, R_CC>>}

\* bindepend.match_binding_redirect: the redirect targets this dependency
match_binding_redirect(dep, binding) ==
    dep.name = binding.name /\ dep.version = binding.oldVersion

\* one pass of applyRedirects' inner loop: binding applied to every dependency
ApplyBinding(deps, binding) ==
    [i \in 1..Len(deps) |->
        IF match_binding_redirect(deps[i], binding)
        THEN [deps[i] EXCEPT !.version = binding.newVersion]
        ELSE deps[i]]

RECURSIVE ApplyBindings(_, _, _)
ApplyBindings(deps, redirects, k) ==
    IF k > Len(redirects) THEN deps
    ELSE ApplyBindings(ApplyBinding(deps, redirects[k]), redirects, k + 1)

RECURSIVE AnyRedirecting(_, _, _)
AnyRedirecting(deps, redirects, k) ==
    IF k > Len(redirects) THEN FALSE
    ELSE (\E i \in 1..Len(deps) : match_binding_redirect(deps[i], redirects[k]))
         \/ AnyRedirecting(ApplyBinding(deps, redirects[k]), redirects, k + 1)

\* a variant that applies no rule
applyRedirects_NoRule(manifest, redirects) ==
    [manifest |-> manifest, redirecting |-> FALSE]

\* applyRedirects(manifest, redirects): the manifest afterwards, and the value returned
applyRedirects(manifest, redirects) ==
    [manifest |-> [manifest EXCEPT
                     !.dependentAssemblies = ApplyBindings(@, redirects, 1)],
     redirecting |-> AnyRedirecting(manifest.dependentAssemblies, redirects, 1)]

\* the private-assembly conversion of checkCache (lines 240-247 and 332-341)
MakePrivate(manifest) ==
    [publicKeyToken |-> "",
     dependentAssemblies |->
        [i \in 1..Len(manifest.dependentAssemblies) |->
            IF manifest.dependentAssemblies[i].name /= COMMON_CONTROLS
            THEN [manifest.dependentAssemblies[i] EXCEPT !.publicKeyToken = ""]
            ELSE manifest.dependentAssemblies[i]]]

----------------------------------------------------------------------------
(* cacheDigest.  MD5 is taken to be injective on the byte stream it is fed: *)
(* the digest is that stream, the file's bytes followed by str(redirects)   *)
(* when the redirect list is not empty.                                     *)

NameCode(n) == IF n = CRT THEN 101 ELSE 102
StrRedirect(r) == <<91, NameCode(r.name), 110 + r.oldVersion, 110 + r.newVersion>>
StrRedirects(rs) ==
    [i \in 1..(4 * Len(rs)) |-> StrRedirect(rs[((i - 1) \div 4) + 1])[((i - 1) % 4) + 1]]

cacheDigest(bytes, redirects) ==
    bytes \o (IF redirects /= <<>> THEN StrRedirects(redirects) ELSE <<>>)

----------------------------------------------------------------------------
(* checkCache(fnm, strip, upx, upx_exclude, dist_nm, target_arch,           *)
(* codesign_identity, entitlements_file, strict_arch_validation).           *)
(*                                                                          *)
(* A call's arguments are the record a; what the environment decides during *)
(* the call is the record e:                                                *)
(*   e.cfg, e.qt     the file is Control-Flow-Guard protected, a Qt plugin  *)
(*   e.pe            GetManifestResources: "ok", "badexe" (not a PE file),  *)
(*                   "error" (any other pywintypes.error)                   *)
(*   e.strip_ok, e.upx_ok   exit status of the external tool                *)
(*   e.mac           the macOS step: "ok", "invalid" (InvalidBinaryError),  *)
(*                   "incompatible" (IncompatibleBinaryArchError), or       *)
(*                   "thin_error", "relocate_error", "sign_error"           *)
(* The call is a pipeline of stages over a context record c; a stage that   *)
(* returns or raises sets c.done, and the later stages leave c alone.       *)

\* PurePath.match for a one-segment pattern <<stem, ext>> with "*" as wildcard;
\* case-insensitive on Windows
PartMatch(part, pat) == pat = "*" \/ (IF is_win THEN LowerStr(part) = LowerStr(pat) ELSE part = pat)
PathMatch(p, pat) ==
    LET seg == p[Len(p)]
    IN  Len(seg) = Len(pat) /\ \A i \in 1..Len(seg) : PartMatch(seg[i], pat[i])

\* hashlib.sha256(...).hexdigest() as a path segment (taken to be injective)
Sha256(x) == <<"sha256", x>>

\* the contents of the entitlements files
EntitlementsBytes(f) == IF f = "e1.plist" THEN "entitlements-1" ELSE "entitlements-2"

Digit(b) == IF b THEN "1" ELSE "0"

\* line 160: UPX is honoured on Windows and Cygwin only
UpxEffective(a) == a.upx /\ (is_win \/ is_cygwin)

\* a variant that tests the requested flag instead of the effective one
NoOpPath_RequestedUpx(conf, a) ==
    /\ ~a.strip
    /\ ~a.upx
    /\ ~is_darwin
    /\ ~(is_win /\ (conf.binding_redirects /= <<>> \/ conf.win_private_assemblies))

\* line 165: nothing to do, return fnm
NoOpPath(conf, a) ==
    /\ ~a.strip
    /\ ~UpxEffective(a)
    /\ ~is_darwin
    /\ ~(is_win /\ (conf.binding_redirects /= <<>> \/ conf.win_private_assemblies))

\* lines 168-178: an exclude pattern that matches fnm turns UPX off
UpxAfterExclude(a) ==
    UpxEffective(a) /\ ~\E i \in 1..Len(a.upx_exclude) : PathMatch(a.fnm, a.upx_exclude[i])

\* a variant that leaves the entitlements out of the directory
CacheDir_NoEntitlements(conf, a, upx) ==
    LET base == Join(conf.cachedir,
                     << <<"bincache", Digit(a.strip), Digit(upx), interp.pyver, interp.arch>> >>)
        d1 == IF a.target_arch /= "" THEN Join(base, << <<a.target_arch>> >>) ELSE base
        d2 == IF a.codesign_identity /= ""
              THEN Join(d1, <<Sha256(a.codesign_identity)>>)
              ELSE Join(d1, << <<"adhoc">> >>)
    IN  IF is_darwin THEN d2 ELSE d1

\* lines 183-203: the cache directory of the call
CacheDir(conf, a, upx) ==
    LET base == Join(conf.cachedir,
                     << <<"bincache", Digit(a.strip), Digit(upx), interp.pyver, interp.arch>> >>)
        d1 == IF a.target_arch /= "" THEN Join(base, << <<a.target_arch>> >>) ELSE base
        d2 == IF a.codesign_identity /= ""
              THEN Join(d1, <<Sha256(a.codesign_identity)>>)
              ELSE Join(d1, << <<"adhoc">> >>)
        d3 == IF a.entitlements_file /= ""
              THEN Join(d2, <<Sha256(EntitlementsBytes(a.entitlements_file))>>)
              ELSE Join(d2, << <<"no-entitlements">> >>)
    IN  IF is_darwin THEN d3 ELSE d1

\* the components the cache directory is derived from
CacheKey(a, upx) ==
    <<Digit(a.strip), Digit(upx), interp.pyver, interp.arch, a.target_arch>>
    \o (IF is_darwin
        THEN <<a.codesign_identity,
               IF a.entitlements_file /= "" THEN EntitlementsBytes(a.entitlements_file) ELSE "">>
        ELSE <<>>)

INDEX_DAT == <<"index", ".dat">>

\* a variant of BaseNm that ignores the destination hint
BaseNm_Plain(a) == normcase(Basename(a.fnm))

\* lines 220-223: the key of the file in the index
BaseNm(a) == IF a.dist_nm /= None THEN normcase(a.dist_nm[1]) ELSE normcase(Basename(a.fnm))

\* what an exception says of its origin: the path its message names, the exception it
\* was raised from
NoCause == [path |-> <<>>, cause |-> ""]

Ctx0(f, a) ==
    [fs |-> f, fnm |-> a.fnm, upx |-> FALSE, done |-> FALSE, noop |-> FALSE,
     ret |-> None, err |-> "", trace |-> <<>>, used |-> {},
     cachedir |-> <<>>, cacheindexfn |-> <<>>, cache_index |-> <<>>,
     basenm |-> <<>>, cachedfile |-> <<>>, digest |-> <<>>, stored |-> None, cmd |-> <<>>,
     wraps |-> NoCause]

Return(c, p) == [c EXCEPT !.done = TRUE, !.ret = Some(p)]
Raise(c, exc) == [c EXCEPT !.done = TRUE, !.err = exc]
Log(c, op, p) == [c EXCEPT !.trace = Append(@, <<op, p>>)]
\* raise exc(... p ...) from cause
RaiseFrom(c, exc, p, cause) == [Raise(c, exc) EXCEPT !.wraps = [path |-> p, cause |-> cause]]

\* lines 151-166
StageNoOp(c, conf, a) ==
    IF NoOpPath(conf, a) THEN [Return(c, a.fnm) EXCEPT !.noop = TRUE] ELSE c

\* lines 168-205: exclusions, cache directory, os.makedirs
StageCacheDir(c, conf, a) ==
    IF c.done THEN c
    ELSE LET upx == UpxAfterExclude(a)
             dir == CacheDir(conf, a, upx)
             c1 == [c EXCEPT !.upx = upx, !.cachedir = dir,
                             !.cacheindexfn = Join(dir, <<INDEX_DAT>>)]
         IN  IF Exists(c.fs, dir) THEN c1
             ELSE Log([c1 EXCEPT !.fs = makedirs(c.fs, dir)], "makedirs", dir)

\* a variant that starts from an empty index when index.dat cannot be loaded
StageLoadIndex_Reset(c) ==
    IF c.done \/ ~Exists(c.fs, c.cacheindexfn) \/ c.fs[c.cacheindexfn].kind /= "index" THEN c
    ELSE Log([c EXCEPT !.cache_index = c.fs[c.cacheindexfn].index],
             "load_index", c.cacheindexfn)

\* lines 206-216: load index.dat, or start from an empty index
StageLoadIndex(c) ==
    IF c.done THEN c
    ELSE IF Exists(c.fs, c.cacheindexfn)
         THEN IF c.fs[c.cacheindexfn].kind = "index"
              THEN Log([c EXCEPT !.cache_index = c.fs[c.cacheindexfn].index],
                       "load_index", c.cacheindexfn)
              ELSE Raise(c, "IndexLoadError")
         ELSE c

\* a variant that leaves a stale cached file in place
StageLookup_KeepStale(c, conf, src, a) ==
    IF c.done THEN c
    ELSE LET basenm == BaseNm(a)
             digest == cacheDigest(src[a.fnm], conf.binding_redirects)
             cachedfile == Join(c.cachedir, basenm)
             c1 == [c EXCEPT !.basenm = basenm, !.digest = digest, !.cachedfile = cachedfile,
                             !.used = @ \cup {<<CacheKey(a, c.upx), c.cachedir, cachedfile,
                                                c.cacheindexfn>>}]
         IN  IF basenm \in DOMAIN c.cache_index
             THEN LET c2 == [c1 EXCEPT !.stored = Some(c.cache_index[basenm])]
                  IN  IF digest /= c.cache_index[basenm] THEN c2 ELSE Return(c2, cachedfile)
             ELSE c1

\* lines 218-232: digest, cached-file path, the fast path, removal of a stale file
StageLookup(c, conf, src, a) ==
    IF c.done THEN c
    ELSE LET basenm == BaseNm(a)
             digest == cacheDigest(src[a.fnm], conf.binding_redirects)
             cachedfile == Join(c.cachedir, basenm)
             key == CacheKey(a, c.upx)
             c1 == [c EXCEPT !.basenm = basenm, !.digest = digest, !.cachedfile = cachedfile,
                             !.used = @ \cup {<<key, c.cachedir, cachedfile, c.cacheindexfn>>}]
         IN  IF basenm \in DOMAIN c.cache_index
             THEN LET c2 == [c1 EXCEPT !.stored = Some(c.cache_index[basenm])]
                  IN  IF digest /= c.cache_index[basenm]
                      THEN IF Exists(c.fs, cachedfile) /\ c.fs[cachedfile].kind /= "dir"
                           THEN Log([c2 EXCEPT !.fs = RemoveFile(c.fs, cachedfile)],
                                    "remove", cachedfile)
                           ELSE Raise(c2, "FileNotFoundError")
                      ELSE Return(c2, cachedfile)
             ELSE c1

\* lines 234-252: a .manifest file on Windows is rewritten into the cache and returned
StageManifest(c, conf, src, a) ==
    IF c.done THEN c
    ELSE IF LowerExt(a.fnm) = ".manifest" /\ is_win
         THEN LET parsed == ParseManifest(src[a.fnm])
                  private == IF conf.win_private_assemblies THEN MakePrivate(parsed) ELSE parsed
                  out == applyRedirects(private, conf.binding_redirects).manifest
              IN  IF Exists(c.fs, Dirname(c.cachedfile))
                  THEN Return(Log([c EXCEPT !.fs = WriteFile(c.fs, c.cachedfile,
                                                       FileRec(<<>>, Some(out), <<>>, ""))],
                                  "write_manifest", c.cachedfile),
                              c.cachedfile)
                  ELSE Raise(c, "FileNotFoundError")
         ELSE c

\* a variant of UpxCmd that compresses Control-Flow-Guard binaries and Qt plugins too
UpxCmd_Always(c, conf, a, e, r) ==
    LET c1 == IF a.strip
              THEN [c EXCEPT !.fs = r.fs, !.trace = @ \o r.trace,
                             !.used = @ \cup r.used,
                             !.fnm = IF r.err = "" THEN r.ret[1] ELSE c.fnm]
              ELSE c
    IN  IF a.strip /\ r.err /= "" THEN [Raise(c1, r.err) EXCEPT !.wraps = r.wraps]
        ELSE [c1 EXCEPT !.cmd = <<"upx", "--best", "-q">>]

\* lines 254-281: the UPX command, given the result r of the nested call made when
\* strip is in effect too
UpxCmd(c, conf, a, e, r) ==
    LET c1 == IF a.strip
              THEN [c EXCEPT !.fs = r.fs, !.trace = @ \o r.trace,
                             !.used = @ \cup r.used,
                             !.fnm = IF r.err = "" THEN r.ret[1] ELSE c.fnm]
              ELSE c
        bestopt == IF conf.hasUPX /\ is_win THEN "--lzma" ELSE "--best"
    IN  IF a.strip /\ r.err /= "" THEN [Raise(c1, r.err) EXCEPT !.wraps = r.wraps]
        ELSE IF is_win /\ e.cfg THEN c1
        ELSE IF e.qt THEN c1
        ELSE [c1 EXCEPT !.cmd = <<"upx", bestopt, "-q">>]

RECURSIVE checkCache(_, _, _, _, _)

\* lines 254-288: the external command to run; with strip and UPX both in effect the
\* stripped file comes from a nested call in the strip-only cache
StageCmd(c, conf, src, a, e) ==
    IF c.done THEN c
    ELSE IF c.upx
         THEN UpxCmd(c, conf, a, e,
                     IF a.strip
                     THEN checkCache(c.fs, conf, src,
                                     [a EXCEPT !.upx = FALSE, !.upx_exclude = <<>>], e)
                     ELSE Ctx0(c.fs, a))
         ELSE IF a.strip
              THEN [c EXCEPT !.cmd = IF is_darwin THEN <<"strip", "-S">> ELSE <<"strip">>]
              ELSE c

\* the file at path p as shutil.copy reads it: a source file, or a file of the cache
ReadFile(f, src, p) ==
    IF p \in DOMAIN src THEN FileRec(src[p], EmbeddedManifest(src[p]), <<>>, "")
    ELSE f[p]

\* lines 290-304: copy into the cache, chmod 0755
StageCopy(c, src) ==
    IF c.done THEN c
    ELSE LET dir == Dirname(c.cachedfile)
             c1 == IF Exists(c.fs, dir) THEN c
                   ELSE Log([c EXCEPT !.fs = makedirs(c.fs, dir)], "makedirs", dir)
             from == ReadFile(c1.fs, src, c.fnm)
         IN  Log([c1 EXCEPT !.fs = WriteFile(c1.fs, c.cachedfile,
                                            [from EXCEPT !.mode = "0755"])],
                 "copy", c.cachedfile)

\* a variant of StagePE in which a manifest that cannot be parsed fails the call
StagePE_ParseFatal(c, conf, e) ==
    IF c.done THEN c
    ELSE IF LowerExt(c.fnm) \in {".pyd", ".dll"} /\ is_win
         THEN IF e.pe = "badexe" THEN c
              ELSE IF e.pe = "error" THEN Raise(c, "pywintypes.error")
              ELSE LET file == c.fs[c.cachedfile]
                   IN  IF file.res = None THEN c
                       ELSE IF e.pe = "parse_error" THEN Raise(c, "ParseError")
                       ELSE LET private == IF conf.win_private_assemblies
                                           THEN MakePrivate(file.res[1]) ELSE file.res[1]
                                r == applyRedirects(private, conf.binding_redirects)
                            IN  IF r.redirecting \/ conf.win_private_assemblies
                                THEN Log([c EXCEPT !.fs = WriteFile(c.fs, c.cachedfile,
                                              [file EXCEPT !.res = Some(r.manifest)])],
                                         "update_resources", c.cachedfile)
                                ELSE c
         ELSE c

\* lines 306-348: the manifest embedded in a .pyd or .dll on Windows.  When
\* Manifest.parse_string raises (e.pe = "parse_error") the error is logged and the
\* resource is left as it is (lines 328-330).
StagePE(c, conf, e) ==
    IF c.done THEN c
    ELSE IF LowerExt(c.fnm) \in {".pyd", ".dll"} /\ is_win
         THEN IF e.pe = "badexe" THEN c
              ELSE IF e.pe = "error" THEN Raise(c, "pywintypes.error")
              ELSE LET file == c.fs[c.cachedfile]
                   IN  IF file.res = None THEN c
                       ELSE IF e.pe = "parse_error"
                            THEN Log(c, "log_error", c.cachedfile)
                       ELSE LET private == IF conf.win_private_assemblies
                                           THEN MakePrivate(file.res[1]) ELSE file.res[1]
                                r == applyRedirects(private, conf.binding_redirects)
                            IN  IF r.redirecting \/ conf.win_private_assemblies
                                THEN Log([c EXCEPT !.fs = WriteFile(c.fs, c.cachedfile,
                                              [file EXCEPT !.res = Some(r.manifest)])],
                                         "update_resources", c.cachedfile)
                                ELSE c
         ELSE c

\* a variant of StageRun that looks at the exit status of the command
StageRun_Checked(c, e) ==
    IF c.done \/ c.cmd = <<>> THEN c
    ELSE LET tool == c.cmd[1]
             ok == IF tool = "upx" THEN e.upx_ok ELSE e.strip_ok
             file == c.fs[c.cachedfile]
             c1 == Log(c, tool, c.cachedfile)
         IN  IF ok
             THEN [c1 EXCEPT !.fs = WriteFile(c.fs, c.cachedfile,
                                             [file EXCEPT !.ops = Append(@, tool)])]
             ELSE Raise(c1, "CalledProcessError")

\* lines 350-352: run the queued command; its exit status is not looked at
StageRun(c, e) ==
    IF c.done \/ c.cmd = <<>> THEN c
    ELSE LET tool == c.cmd[1]
             ok == IF tool = "upx" THEN e.upx_ok ELSE e.strip_ok
             file == c.fs[c.cachedfile]
             c1 == Log(c, tool, c.cachedfile)
         IN  IF ok
             THEN [c1 EXCEPT !.fs = WriteFile(c.fs, c.cachedfile,
                                             [file EXCEPT !.ops = Append(@, tool)])]
             ELSE c1

\* a variant that never saves the index
StageIndex_NoSave(c) == c

\* a variant that saves an index of the one entry
StageIndex_Alone(c) ==
    IF c.done THEN c
    ELSE Log([c EXCEPT !.cache_index = [k \in {c.basenm} |-> c.digest],
                       !.fs = WriteFile(c.fs, c.cacheindexfn,
                                        IndexRec([k \in {c.basenm} |-> c.digest]))],
             "save_index", c.cacheindexfn)

\* lines 354-356: record the digest and save index.dat
StageIndex(c) ==
    IF c.done THEN c
    ELSE LET ix == [k \in DOMAIN c.cache_index \cup {c.basenm} |->
                       IF k = c.basenm THEN c.digest ELSE c.cache_index[k]]
         IN  Log([c EXCEPT !.cache_index = ix,
                           !.fs = WriteFile(c.fs, c.cacheindexfn, IndexRec(ix))],
                 "save_index", c.cacheindexfn)

\* one step of the macOS stage applied to the cached file
MacOp(c, op) ==
    Log([c EXCEPT !.fs = WriteFile(c.fs, c.cachedfile,
                                  [c.fs[c.cachedfile] EXCEPT !.ops = Append(@, op)])],
        op, c.cachedfile)

\* a variant that swallows every failure of the macOS stage
StageMac_Lenient(c, a, e) ==
    IF c.done THEN c
    ELSE IF ~is_darwin \/ e.mac /= "ok" \/ a.dist_nm = None THEN Return(c, c.cachedfile)
    ELSE Return(MacOp(MacOp(MacOp(c, "thin"), "relocate"), "sign"), c.cachedfile)

\* lines 366-395: thin to the target architecture, rewrite the load paths, sign
StageMac(c, a, e) ==
    IF c.done THEN c
    ELSE IF ~is_darwin THEN Return(c, c.cachedfile)
    ELSE IF e.mac = "invalid" THEN Return(c, c.cachedfile)
    ELSE IF e.mac = "incompatible"
         THEN IF a.strict_arch_validation THEN Raise(c, "IncompatibleBinaryArchError")
              ELSE Return(c, c.cachedfile)
    ELSE IF e.mac = "thin_error" THEN RaiseFrom(c, "SystemError", c.cachedfile, "thin_error")
    ELSE LET c1 == MacOp(c, "thin")
         IN  IF a.dist_nm = None THEN RaiseFrom(c1, "SystemError", c.cachedfile, "TypeError")
             ELSE IF e.mac = "relocate_error"
                  THEN RaiseFrom(c1, "SystemError", c.cachedfile, "relocate_error")
             ELSE LET c2 == MacOp(c1, "relocate")
                  IN  IF e.mac = "sign_error"
                      THEN RaiseFrom(c2, "SystemError", c.cachedfile, "sign_error")
                      ELSE Return(MacOp(c2, "sign"), c.cachedfile)

checkCache(f, conf, src, a, e) ==
    LET c0 == StageNoOp(Ctx0(f, a), conf, a)
        c1 == StageCacheDir(c0, conf, a)
        c2 == StageLoadIndex(c1)
        c3 == StageLookup(c2, conf, src, a)
        c4 == StageManifest(c3, conf, src, a)
        c5 == StageCmd(c4, conf, src, a, e)
        c6 == StageCopy(c5, src)
        c7 == StagePE(c6, conf, e)
        c8 == StageRun(c7, e)
        c9 == StageIndex(c8)
    IN  StageMac(c9, a, e)

----------------------------------------------------------------------------
(* The rebuild-need predicates.  A TOC is a sequence of entries             *)
(* [dest_name, src_name, typecode]; mt is misc.mtime, the modification time *)
(* of every source file.  A predicate gives the value returned and the      *)
(* "Building because ... changed" messages logged.                          *)

\* a variant that logs nothing
check_guts_eq_Silent(attr_name, old_value, new_value, last_build) ==
    [ret |-> old_value /= new_value, log |-> <<>>]

check_guts_eq(attr_name, old_value, new_value, last_build) ==
    IF old_value /= new_value
    THEN [ret |-> TRUE, log |-> <<attr_name>>]
    ELSE [ret |-> FALSE, log |-> <<>>]

\* the loop of _check_guts_toc_mtime from entry i on
RECURSIVE toc_mtime_loop(_, _, _, _)
toc_mtime_loop(toc, last_build, mt, i) ==
    IF i > Len(toc) THEN [ret |-> FALSE, log |-> <<>>]
    ELSE IF mt[toc[i].src_name] > last_build
         THEN [ret |-> TRUE, log |-> <<toc[i].src_name>>]
         ELSE toc_mtime_loop(toc, last_build, mt, i + 1)

\* a variant that walks the new TOC
check_guts_toc_mtime_NewToc(attr_name, old_toc, new_toc, last_build, mt) ==
    toc_mtime_loop(new_toc, last_build, mt, 1)

check_guts_toc_mtime(attr_name, old_toc, new_toc, last_build, mt) ==
    toc_mtime_loop(old_toc, last_build, mt, 1)

\* "eq or toc_mtime": the second predicate runs only when the first is false
check_guts_toc(attr_name, old_toc, new_toc, last_build, mt) ==
    LET r == check_guts_eq(attr_name, old_toc, new_toc, last_build)
    IN  IF r.ret THEN r
        ELSE check_guts_toc_mtime(attr_name, old_toc, new_toc, last_build, mt)

----------------------------------------------------------------------------
(* add_suffix_to_extension.  Here a string is the sequence of its           *)
(* characters, so that endswith, replace, basename and slicing are computed *)
(* as Python computes them.                                                 *)

os_sep == "/"

\* importlib.machinery.EXTENSION_SUFFIXES: ".x.so" (x the ABI tag) and ".so"
EXTENSION_SUFFIXES == {<<".", "x", ".", "s", "o">>, <<".", "s", "o">>}

endswith(s, t) == Len(t) <= Len(s) /\ SubSeq(s, Len(s) - Len(t) + 1, Len(s)) = t

\* s[n:]
SliceFrom(s, n) == SubSeq(s, n + 1, Len(s))

\* s.rfind(ch), counted from 1; 0 when ch does not occur
rfind(s, ch) ==
    LET I == {i \in 1..Len(s) : s[i] = ch}
    IN  IF I = {} THEN 0 ELSE CHOOSE i \in I : \A j \in I : j <= i

basename(s) == SliceFrom(s, rfind(s, os_sep))

\* os.path.splitext(s)[1]: from the last dot of the basename on, leading dots apart
splitext_ext(s) ==
    LET b == basename(s)
        d == rfind(b, ".")
    IN  IF d = 0 \/ \A i \in 1..d : b[i] = "." THEN <<>> ELSE SliceFrom(b, d - 1)

add_suffix_to_extension(dest_name, src_name, typecode) ==
    LET same == [dest_name |-> dest_name, src_name |-> src_name, typecode |-> typecode,
                 err |-> ""]
        d1 == [i \in 1..Len(dest_name) |->
                 IF dest_name[i] = "." THEN os_sep ELSE dest_name[i]]
        base_name == basename(d1)
    IN  IF typecode /= "EXTENSION" THEN same
        ELSE IF endswith(src_name, dest_name) THEN same
        ELSE IF splitext_ext(d1) \notin EXTENSION_SUFFIXES
             THEN IF \E i \in 1..Len(base_name) : base_name[i] = "."
                  THEN [same EXCEPT !.err = "AssertionError"]
                  ELSE [same EXCEPT
                          !.dest_name = d1 \o SliceFrom(basename(src_name), Len(base_name))]
             ELSE [same EXCEPT !.dest_name = d1]

(* format_binaries_and_datas.  Here a path is the sequence of its segments *)
(* as written: "/" first for an absolute path, "." and ".." and the empty   *)
(* segment of a doubled separator where the caller wrote them.  The empty   *)
(* sequence is the empty string, and None for workingdir.                   *)

\* the files on disk: absolute normalized path -> "dir", "file", or "fifo" (an entry
\* that is neither a regular file nor a directory)
TREE ==
    (<<"/">> :> "dir") @@ (<<"/", "s">> :> "dir") @@ (<<"/", "s", "a.txt">> :> "file") @@
    (<<"/", "s", "d">> :> "dir") @@ (<<"/", "s", "d", "b.txt">> :> "file") @@
    (<<"/", "s", "d", "p">> :> "fifo") @@ (<<"/", "s", "d", "e">> :> "dir") @@
    (<<"/", "s", "d", "e", "c.txt">> :> "file") @@ (<<"/", "s", "z">> :> "dir") @@
    (<<"/", "t">> :> "dir") @@ (<<"/", "t", "a.txt">> :> "file") @@
    (<<"/", "w">> :> "dir") @@ (<<"/", "w", "a.txt">> :> "file")

\* the current working directory
CWD == <<"/", "w">>

isabs(p) == p /= <<>> /\ p[1] = "/"

\* os.path.join of two paths
path_join(a, b) == IF isabs(b) THEN b ELSE a \o b

RECURSIVE NormSegs(_, _, _)
NormSegs(segs, acc, abs) ==
    IF segs = <<>> THEN acc
    ELSE LET h == Head(segs)
             t == Tail(segs)
         IN  IF h \in {"", "."} THEN NormSegs(t, acc, abs)
             ELSE IF h = ".."
                  THEN IF acc /= <<>> /\ acc[Len(acc)] /= ".."
                       THEN NormSegs(t, SubSeq(acc, 1, Len(acc) - 1), abs)
                       ELSE IF abs THEN NormSegs(t, acc, abs)
                            ELSE NormSegs(t, Append(acc, ".."), abs)
                  ELSE NormSegs(t, Append(acc, h), abs)

\* a variant that leaves the path as written
normpath_AsWritten(p) == p

\* os.path.normpath
normpath(p) ==
    IF isabs(p) THEN <<"/">> \o NormSegs(Tail(p), <<>>, TRUE)
    ELSE LET r == NormSegs(p, <<>>, FALSE) IN IF r = <<>> THEN <<".">> ELSE r

\* what is at path p, relative paths being taken from the working directory
Kind(p) ==
    LET q == normpath(path_join(CWD, p))
    IN  IF q \in DOMAIN TREE THEN TREE[q] ELSE "none"

isfile(p) == Kind(p) = "file"
isdir(p) == Kind(p) = "dir"

\* os.listdir: the names in directory p
listdir(p) ==
    LET q == normpath(path_join(CWD, p))
    IN  {t[Len(t)] : t \in {u \in DOMAIN TREE : Len(u) = Len(q) + 1 /\ SubSeq(u, 1, Len(q)) = q}}

\* glob.glob of a normalized pattern; "*" stands for any one name
glob(pat) ==
    IF \A i \in 1..Len(pat) : pat[i] /= "*"
    THEN IF Kind(pat) /= "none" THEN {pat} ELSE {}
    ELSE LET under == {u \in DOMAIN TREE : Len(u) > Len(CWD) /\ SubSeq(u, 1, Len(CWD)) = CWD}
             cands == IF isabs(pat) THEN DOMAIN TREE
                      ELSE {SliceFrom(u, Len(CWD)) : u \in under}
         IN  {q \in cands : Len(q) = Len(pat) /\ \A i \in 1..Len(q) : pat[i] \in {"*", q[i]}}

\* a variant that does not descend into subdirectories
walk_TopOnly(top) == {top}

\* os.walk(top): the directories visited
RECURSIVE walk(_)
walk(top) ==
    {top} \cup UNION {walk(path_join(top, <<n>>)) :
                         n \in {m \in listdir(top) : isdir(path_join(top, <<m>>))}}

\* os.path.relpath(path, start) for a path that extends start
relpath(path, start) == IF path = start THEN <<".">> ELSE SliceFrom(path, Len(start))

\* a variant without glob expansion
src_root_paths_NoGlob(src_root_path_or_glob, workingdir) ==
    LET p == normpath(IF workingdir /= <<>> /\ ~isabs(src_root_path_or_glob)
                      THEN path_join(workingdir, src_root_path_or_glob)
                      ELSE src_root_path_or_glob)
    IN  IF isfile(p) THEN {p} ELSE {}

\* lines 529-538: the source paths a source spec stands for
src_root_paths(src_root_path_or_glob, workingdir) ==
    LET p == normpath(IF workingdir /= <<>> /\ ~isabs(src_root_path_or_glob)
                      THEN path_join(workingdir, src_root_path_or_glob)
                      ELSE src_root_path_or_glob)
    IN  IF isfile(p) THEN {p} ELSE glob(p)

\* lines 555-584: the entries one source path adds
root_entries(src_root_path, trg_root_dir) ==
    IF isfile(src_root_path)
    THEN {<<normpath(path_join(trg_root_dir, <<src_root_path[Len(src_root_path)]>>)),
            normpath(src_root_path)>>}
    ELSE IF isdir(src_root_path)
    THEN UNION {LET trg_dir == normpath(path_join(trg_root_dir,
                                                  relpath(src_dir, src_root_path)))
                IN  {<<normpath(path_join(trg_dir, <<f>>)),
                       normpath(path_join(src_dir, <<f>>))>> :
                        f \in {n \in listdir(src_dir) : isfile(path_join(src_dir, <<n>>))}} :
                src_dir \in walk(src_root_path)}
    ELSE {}

\* the loop of format_binaries_and_datas from pair i on
RECURSIVE format_loop(_, _, _, _)
format_loop(binaries_or_datas, workingdir, i, toc_datas) ==
    IF i > Len(binaries_or_datas) THEN [err |-> "", toc |-> toc_datas]
    ELSE LET src == binaries_or_datas[i][1]
             trg_root_dir == binaries_or_datas[i][2]
             roots == src_root_paths(src, workingdir)
         IN  IF src = <<>> \/ trg_root_dir = <<>> \/ roots = {}
             THEN [err |-> "SystemExit", toc |-> {}]
             ELSE format_loop(binaries_or_datas, workingdir, i + 1,
                              toc_datas \cup UNION {root_entries(r, trg_root_dir) : r \in roots})

format_binaries_and_datas(binaries_or_datas, workingdir) ==
    format_loop(binaries_or_datas, workingdir, 1, {})

----------------------------------------------------------------------------
(* strip_paths_in_code.  A file name is a string, the sequence of its       *)
(* characters.  A constant of a code object is a record: a code object      *)
(* (kind "code", with co_filename and co_consts) or any other constant     *)
(* (kind "const", with its value).  search_paths is sys.path +              *)
(* CONF['pathex'].                                                          *)

Const(value) ==
    [kind |-> "const", value |-> value, co_filename |-> <<>>, co_consts |-> <<>>]
Code(co_filename, co_consts) ==
    [kind |-> "code", value |-> "", co_filename |-> co_filename, co_consts |-> co_consts]

startswith(s, t) == Len(t) <= Len(s) /\ SubSeq(s, 1, Len(t)) = t

\* s.split(sep)
RECURSIVE split(_, _)
split(s, sep) ==
    LET I == {i \in 1..Len(s) : s[i] = sep}
    IN  IF I = {} THEN <<s>>
        ELSE LET i == CHOOSE i \in I : \A j \in I : i <= j
             IN  <<SubSeq(s, 1, i - 1)>> \o split(SliceFrom(s, i), sep)

\* os.sep.join(comps)
RECURSIVE join_sep(_)
join_sep(comps) ==
    IF comps = <<>> THEN <<>>
    ELSE IF Len(comps) = 1 THEN comps[1]
    ELSE comps[1] \o <<os_sep>> \o join_sep(Tail(comps))

\* the loop of os.path.normpath over the components of a string
RECURSIVE norm_comps(_, _, _)
norm_comps(comps, acc, abs) ==
    IF comps = <<>> THEN acc
    ELSE LET h == comps[1]
             t == Tail(comps)
         IN  IF h \in {<<>>, <<".">>} THEN norm_comps(t, acc, abs)
             ELSE IF h = <<".", ".">>
                  THEN IF acc /= <<>> /\ acc[Len(acc)] /= <<".", ".">>
                       THEN norm_comps(t, SubSeq(acc, 1, Len(acc) - 1), abs)
                       ELSE IF abs THEN norm_comps(t, acc, abs)
                            ELSE norm_comps(t, Append(acc, h), abs)
                  ELSE norm_comps(t, Append(acc, h), abs)

\* os.path.normpath on a string
normpath_str(s) ==
    LET abs == s /= <<>> /\ s[1] = os_sep
        r == join_sep(norm_comps(split(s, os_sep), <<>>, abs))
    IN  IF abs THEN <<os_sep>> \o r
        ELSE IF r = <<>> THEN <<".">> ELSE r

\* a variant that leaves the entry as listed
join_empty_AsListed(f) == f

\* os.path.join(f, ''): f with a trailing separator; '' stays ''
join_empty(f) == IF f = <<>> \/ f[Len(f)] = os_sep THEN f ELSE f \o <<os_sep>>

\* f put into a list sorted longest first, behind the entries at least as long
RECURSIVE insert_by_len(_, _)
insert_by_len(sorted, f) ==
    IF sorted = <<>> THEN <<f>>
    ELSE IF Len(sorted[1]) >= Len(f) THEN <<sorted[1]>> \o insert_by_len(Tail(sorted), f)
    ELSE <<f>> \o sorted

\* line 618: sorted(..., key=len, reverse=True), a stable sort
RECURSIVE replace_paths(_)
replace_paths(search_paths) ==
    IF search_paths = <<>> THEN <<>>
    ELSE insert_by_len(replace_paths(SubSeq(search_paths, 1, Len(search_paths) - 1)),
                       join_empty(search_paths[Len(search_paths)]))

\* lines 622-628: the first entry from i on that original_filename starts with
RECURSIVE first_prefix(_, _, _)
first_prefix(paths, original_filename, i) ==
    IF i > Len(paths) THEN None
    ELSE IF startswith(original_filename, paths[i]) THEN Some(paths[i])
    ELSE first_prefix(paths, original_filename, i + 1)

RECURSIVE strip_paths_in_code(_, _, _)
strip_paths_in_code(co, new_filename, search_paths) ==
    LET original_filename == normpath_str(co.co_filename)
        f == first_prefix(replace_paths(search_paths), original_filename, 1)
        nf == IF new_filename /= None THEN new_filename
              ELSE IF f /= None THEN Some(SliceFrom(original_filename, Len(f[1])))
              ELSE None
    IN  IF nf = None THEN co
        ELSE [co EXCEPT
                 !.co_filename = nf[1],
                 !.co_consts = [i \in DOMAIN co.co_consts |->
                                  IF co.co_consts[i].kind = "code"
                                  THEN strip_paths_in_code(co.co_consts[i], nf, search_paths)
                                  ELSE co.co_consts[i]]]

----------------------------------------------------------------------------
(* compile_pymodule.  Names and paths are strings as above.  A file is      *)
(* [mtime, bytes]; the bytes of a compiled record are the 16 bytes of its   *)
(* header followed by the marshalled code object.  The code of a module is  *)
(* a code object holding a constant and the code object of a function, all  *)
(* of one file name; marshal writes a type byte, the file name and the      *)
(* constant.  A Python source text is <<"def", v>> when it compiles and     *)
(* <<"(", v>> when it has a syntax error.                                   *)

WORKPATH == <<"/", "w">>
\* sys.path + CONF['pathex'] during compile_pymodule: /s
PYC_SEARCH_PATHS == << <<"/", "s">> >>

MAGIC_310 == <<111, 13, 13, 10>>
MAGIC_311 == <<167, 13, 13, 10>>
\* compat.BYTECODE_MAGIC of the running interpreter
BYTECODE_MAGIC == pyc.magic

DUNDER_INIT == <<"_", "_", "i", "n", "i", "t", "_", "_">>
DOT_PY == <<".", "p", "y">>
DOT_PYC == <<".", "p", "y", "c">>

\* t in s
contains(s, t) == \E i \in 0..(Len(s) - Len(t)) : SubSeq(s, i + 1, i + Len(t)) = t

\* s[:n]
Take(s, n) == SubSeq(s, 1, IF n < Len(s) THEN n ELSE Len(s))

\* a variant that keeps the case
lower_AsIs(s) == s

\* str.lower() on the characters of the model (and on the directory name Win32, which
\* the model of postprocess_binaries_toc_pywin32 keeps in one piece)
lower(s) ==
    [i \in 1..Len(s) |-> CASE s[i] = "P" -> "p" [] s[i] = "Y" -> "y"
                            [] s[i] = "Win32" -> "win32" [] OTHER -> s[i]]

ModuleCode(co_filename, v) ==
    Code(co_filename, <<Const(v), Code(co_filename, <<Const(v)>>)>>)

marshal_dumps(co) == <<"c">> \o co.co_filename \o <<co.co_consts[1].value>>
\* None for bytes that are no marshalled code object
marshal_loads(b) ==
    IF Len(b) >= 2 /\ b[1] = "c" THEN Some(ModuleCode(SubSeq(b, 2, Len(b) - 1), b[Len(b)]))
    ELSE None

\* what py_compile.compile writes: magic, flags 0, source mtime, source size, code
py_compile_bytes(src_path, src) ==
    BYTECODE_MAGIC \o <<0, 0, 0, 0>> \o <<src.mtime, 0, 0, 0>> \o <<Len(src.bytes), 0, 0, 0>>
    \o marshal_dumps(ModuleCode(src_path, src.bytes[2]))

\* a variant with the header of a timestamp-based record
pyc_header_Unhashed(magic) == magic \o <<0, 0, 0, 0>> \o <<0, 0, 0, 0, 0, 0, 0, 0>>

\* lines 742-744: magic, struct.pack('<I', 0b01), eight zero bytes
pyc_header(magic) == magic \o <<1, 0, 0, 0>> \o <<0, 0, 0, 0, 0, 0, 0, 0>>

\* lines 682-694
pyc_path(name, src_path, workpath) ==
    LET split_name == split(name, ".")
        init == contains(src_path, DUNDER_INIT)
        parent_dirs == IF init THEN split_name
                       ELSE SubSeq(split_name, 1, Len(split_name) - 1)
        mod_basename == IF init THEN DUNDER_INIT ELSE split_name[Len(split_name)]
    IN  join_sep(<<workpath>> \o parent_dirs \o <<mod_basename \o DOT_PYC>>)

\* a variant that looks at the modification times only
can_reuse_AnyMagic(st, path) ==
    path \in DOMAIN st.files /\ st.files[path].mtime > st.src.mtime

\* lines 699-706
can_reuse(st, path) ==
    /\ path \in DOMAIN st.files
    /\ st.files[path].mtime > st.src.mtime
    /\ Take(st.files[path].bytes, 4) = BYTECODE_MAGIC

\* a variant that falls back on the source text whatever the extension
PycObtain_AnyInput(r, name, src_path, code_cache, st, e) ==
    [r EXCEPT !.code_object = Some(ModuleCode(src_path, "1"))]

\* lines 711-735: the code object from code_cache, from the source, or from a .pyc
PycObtain(r, name, src_path, code_cache, st, e) ==
    LET cached == IF code_cache /= None /\ name \in DOMAIN code_cache[1]
                  THEN Some(code_cache[1][name]) ELSE None
        ext == lower(splitext_ext(src_path))
        Load(r2, pyc_data) ==
            IF marshal_loads(SliceFrom(pyc_data, 16)) /= None
            THEN [r2 EXCEPT !.code_object = marshal_loads(SliceFrom(pyc_data, 16))]
            ELSE [r2 EXCEPT !.err = "EOFError"]
    IN  IF cached /= None
        THEN [r EXCEPT !.code_object = cached, !.trace = Append(@, "code_cache")]
        ELSE IF ext = DOT_PY
        THEN LET r2 == [r EXCEPT
                          !.trace = Append(@, "py_compile"),
                          !.files = IF st.src.bytes[1] = "def"
                                    THEN WriteFile(@, r.pyc_path,
                                             [mtime |-> st.now,
                                              bytes |-> py_compile_bytes(src_path, st.src)])
                                    ELSE @]
             IN  IF e.crash = "compiled" THEN [r2 EXCEPT !.err = "crash"]
                 ELSE IF r.pyc_path \notin DOMAIN r2.files
                      THEN [r2 EXCEPT !.err = "FileNotFoundError"]
                      ELSE Load(r2, r2.files[r.pyc_path].bytes)
        ELSE IF ext = DOT_PYC
        THEN IF Take(st.src.bytes, 4) /= BYTECODE_MAGIC
             THEN [r EXCEPT !.err = "ValueError"]
             ELSE Load([r EXCEPT !.trace = Append(@, "read_pyc")], st.src.bytes)
        ELSE [r EXCEPT !.err = "ValueError"]

\* lines 737-748: strip the paths, write the record
PycWrite(r, st, e) ==
    IF r.err /= "" THEN r
    ELSE LET code_object == strip_paths_in_code(r.code_object[1], None, PYC_SEARCH_PATHS)
         IN  IF e.crash = "opened"
             THEN [r EXCEPT !.err = "crash", !.trace = Append(@, "open"),
                            !.files = WriteFile(@, r.pyc_path,
                                                   [mtime |-> st.now, bytes |-> <<>>])]
             ELSE [r EXCEPT
                     !.ret = Some(r.pyc_path), !.trace = Append(@, "write"),
                     !.dumped = Some(code_object),
                     !.files = WriteFile(@, r.pyc_path,
                                  [mtime |-> st.now,
                                   bytes |-> pyc_header(BYTECODE_MAGIC)
                                             \o marshal_dumps(code_object)])]

\* st is the state of the disk: [src, files, dirs, now]; e is what happens to the process
compile_pymodule(name, src_path, workpath, code_cache, st, e) ==
    LET path == pyc_path(name, src_path, workpath)
        r0 == [files |-> st.files, dirs |-> st.dirs, ret |-> None, err |-> "",
               trace |-> <<>>, code_object |-> None, dumped |-> None, pyc_path |-> path]
    IN  IF can_reuse(st, path) THEN [r0 EXCEPT !.ret = Some(path)]
        ELSE LET seps == {i \in 2..Len(path) : path[i] = os_sep}
                 r1 == [r0 EXCEPT !.trace = <<"makedirs">>,
                                  !.dirs = @ \cup {SubSeq(path, 1, i - 1) : i \in seps}]
             IN  PycWrite(PycObtain(r1, name, src_path, code_cache, st, e), st, e)

----------------------------------------------------------------------------
(* postprocess_binaries_toc_pywin32.  Names are strings as above, with the  *)
(* name of a file or directory kept in one piece where its letters do not   *)
(* matter.                                                                  *)

PYWIN32_SUBDIRS == {<<"win32">>, <<"pythonwin">>, <<"pywin32_system32">>}

\* the named components of pathlib.PurePath(s): no empty ones and no '.'
PurePathParts(s) == SelectSeq(split(s, os_sep), LAMBDA c : c \notin {<<>>, <<".">>})

postprocess_binaries_toc_pywin32(binaries) ==
    LET fix(entry) ==
            LET dest_path == PurePathParts(entry.dest_name)
                src_path == PurePathParts(entry.src_name)
                \* src_path.parent.name
                parent_name == IF Len(src_path) >= 2 THEN src_path[Len(src_path) - 1]
                               ELSE <<>>
            IN  IF Len(dest_path) <= 1 /\ lower(parent_name) \in PYWIN32_SUBDIRS
                THEN [entry EXCEPT !.dest_name = join_sep(<<parent_name>> \o dest_path)]
                ELSE entry
    IN  [i \in 1..Len(binaries) |-> fix(binaries[i])]

----------------------------------------------------------------------------
(* The cache over a sequence of calls: checkCache calls interleaved with    *)
(* changes of the source files and of the build configuration.              *)

CACHE_ROOT == << <<"cache">> >>

Conf(redirects, private) ==
    [cachedir |-> CACHE_ROOT, binding_redirects |-> redirects,
     win_private_assemblies |-> private, hasUPX |-> TRUE]

Interp(pyver, arch) == [pyver |-> pyver, arch |-> arch]

NoArgs ==
    [fnm |-> <<>>, strip |-> FALSE, upx |-> FALSE, upx_exclude |-> <<>>, dist_nm |-> None,
     target_arch |-> "", codesign_identity |-> "", entitlements_file |-> "",
     strict_arch_validation |-> FALSE]

NoPrev == [ret |-> None, err |-> "", noop |-> FALSE, bytes |-> <<>>]
NoEdits == [src |-> {}, redirects |-> FALSE, private |-> FALSE]

NoCall ==
    [a |-> NoArgs, redirects |-> <<>>, private |-> FALSE, bytes |-> <<>>,
     ret |-> None, err |-> "", noop |-> FALSE, trace |-> <<>>,
     digest |-> <<>>, stored |-> None, basenm |-> <<>>, cachedfile |-> <<>>,
     cacheindexfn |-> <<>>, same |-> FALSE, edits |-> NoEdits, prev |-> NoPrev,
     wraps |-> NoCause]

\* the calls a behaviour may make: every file and every flag tuple
FocusArgs ==
    [fnm : SrcFiles, strip : BOOLEAN, upx : BOOLEAN, upx_exclude : {<<>>},
     dist_nm : {None, Some(HINT)},
     target_arch : IF is_darwin THEN {"x86_64"} ELSE {""},
     codesign_identity : IF is_darwin THEN {"", "id1"} ELSE {""},
     entitlements_file : {""},
     strict_arch_validation : IF is_darwin THEN BOOLEAN ELSE {FALSE}]

\* what the environment may decide during a call with arguments a (a decision the
\* call never reads is left at its default)
Envs(a) ==
    {e \in [cfg : BOOLEAN, qt : BOOLEAN, pe : {"ok", "badexe", "error"},
            strip_ok : BOOLEAN, upx_ok : BOOLEAN,
            mac : {"ok", "invalid", "incompatible", "thin_error", "relocate_error",
                   "sign_error"}] :
        /\ e.cfg => is_win /\ UpxEffective(a)
        /\ e.qt => UpxEffective(a) /\ ~e.cfg
        /\ e.pe /= "ok" => is_win /\ LowerExt(a.fnm) \in {".pyd", ".dll"}
        /\ ~e.strip_ok => a.strip
        /\ ~e.upx_ok => UpxEffective(a) /\ ~e.cfg /\ ~e.qt
        /\ e.mac /= "ok" => is_darwin}

\* the record kept of a call with result r
CallRecord(a, r) ==
    LET same == nCalls > 0 /\ last.a = a
    IN  [a |-> a, redirects |-> CONF.binding_redirects,
         private |-> CONF.win_private_assemblies, bytes |-> srcBytes[a.fnm],
         ret |-> r.ret, err |-> r.err, noop |-> r.noop, trace |-> r.trace,
         digest |-> r.digest, stored |-> r.stored, basenm |-> r.basenm,
         cachedfile |-> r.cachedfile, cacheindexfn |-> r.cacheindexfn,
         same |-> same, edits |-> edits, wraps |-> r.wraps,
         prev |-> IF same
                  THEN [ret |-> last.ret, err |-> last.err, noop |-> last.noop,
                        bytes |-> last.bytes]
                  ELSE NoPrev]

\* a top-level call checkCache(a) during which the environment decides e
DoCall(a, e) ==
    LET r == checkCache(fs, CONF, srcBytes, a, e)
    IN  /\ fs' = r.fs
        /\ last' = CallRecord(a, r)
        /\ touched' = touched \cup r.used
        /\ edits' = NoEdits
        /\ nCalls' = nCalls + 1

\* the state of the parts of the model a specification does not exercise
NoOther == [a |-> NoArgs, interp |-> Interp("py310", "64bit")]
FormatIdle ==
    /\ fmtArgs = [binaries_or_datas |-> <<>>, workingdir |-> <<>>]
    /\ fmtResult = [done |-> FALSE, err |-> "", toc |-> {}]
SuffixIdle ==
    /\ sfxArgs = [dest_name |-> <<>>, src_name |-> <<>>, typecode |-> ""]
    /\ sfxResult = <<>>
GutsIdle ==
    /\ gutsArgs = [old_toc |-> <<>>, new_toc |-> <<>>, last_build |-> 0, mt |-> <<>>]
    /\ gutsResult = [fn |-> "", ret |-> FALSE, log |-> <<>>]

PycIdle == pyc = <<>>
StripIdle == strp = <<>>
PywinIdle == pywin = <<>>
RaceIdle == race = <<>>
ProbeIdle == probe = <<>>
MoreIdle == PycIdle /\ StripIdle /\ PywinIdle /\ RaceIdle /\ ProbeIdle

\* a cache that has seen no call, under the given arguments
CacheInit(args) ==
    /\ platform \in Platforms
    /\ interp = Interp("py310", "64bit")
    /\ CONF = Conf(<<>>, FALSE)
    /\ srcBytes = [f \in SrcFiles |-> <<1>>]
    /\ fs = <<>>
    /\ nCalls = 0
    /\ nEdits = 0
    /\ focus \in args
    /\ last = NoCall
    /\ edits = NoEdits
    /\ touched = {}

Init ==
    /\ CacheInit(FocusArgs)
    /\ other = NoOther
    /\ FormatIdle /\ SuffixIdle /\ GutsIdle /\ MoreIdle

CheckCacheCall ==
    /\ nCalls + nEdits < MaxSteps
    /\ \E e \in Envs(focus) : DoCall(focus, e)
    /\ UNCHANGED <<platform, interp, CONF, srcBytes, nEdits, focus>>
    /\ UNCHANGED <<other, pureVars, moreVars>>

\* the bytes of a source file change
ModifySource ==
    /\ nCalls + nEdits < MaxSteps
    /\ \E f \in SrcFiles :
          /\ srcBytes' = [srcBytes EXCEPT ![f] = OtherBytes(@)]
          /\ edits' = [edits EXCEPT !.src = @ \cup {f}]
    /\ nEdits' = nEdits + 1
    /\ UNCHANGED <<platform, interp, CONF, fs, nCalls, focus, last, touched>>
    /\ UNCHANGED <<other, pureVars, moreVars>>

\* CONF['binding_redirects'] changes
SetRedirects ==
    /\ nCalls + nEdits < MaxSteps
    /\ \E r \in RedirectConfigs \ {CONF.binding_redirects} :
          CONF' = [CONF EXCEPT !.binding_redirects = r]
    /\ edits' = [edits EXCEPT !.redirects = TRUE]
    /\ nEdits' = nEdits + 1
    /\ UNCHANGED <<platform, interp, srcBytes, fs, nCalls, focus, last, touched>>
    /\ UNCHANGED <<other, pureVars, moreVars>>

\* CONF['win_private_assemblies'] changes
SetPrivateAssemblies ==
    /\ nCalls + nEdits < MaxSteps
    /\ CONF' = [CONF EXCEPT !.win_private_assemblies = ~@]
    /\ edits' = [edits EXCEPT !.private = TRUE]
    /\ nEdits' = nEdits + 1
    /\ UNCHANGED <<platform, interp, srcBytes, fs, nCalls, focus, last, touched>>
    /\ UNCHANGED <<other, pureVars, moreVars>>

Next ==
    \/ CheckCacheCall
    \/ ModifySource
    \/ SetRedirects
    \/ SetPrivateAssemblies

Spec == Init /\ [][Next]_vars

----------------------------------------------------------------------------
(* checkCache calls over a cache whose index files may get damaged on disk  *)
(* (specification SpecCorrupt).                                             *)

\* an index.dat of the cache becomes a file misc.load_py_data_struct cannot load
CorruptIndex ==
    /\ nCalls + nEdits < MaxSteps
    /\ \E p \in {q \in DOMAIN fs : fs[q].kind = "index"} :
          fs' = [fs EXCEPT ![p].kind = "corrupt"]
    /\ nEdits' = nEdits + 1
    /\ UNCHANGED <<platform, interp, CONF, srcBytes, nCalls, focus, last, edits, touched>>
    /\ UNCHANGED <<other, pureVars, moreVars>>

NextCorrupt ==
    \/ CheckCacheCall
    \/ CorruptIndex

SpecCorrupt == Init /\ [][NextCorrupt]_vars

----------------------------------------------------------------------------
(* Two checkCache calls with any two argument tuples and interpreters       *)
(* (specification SpecKey).                                                 *)

KeyArgs ==
    {a \in [fnm : {XDLL}, strip : BOOLEAN,
            upx : IF is_darwin THEN {FALSE} ELSE BOOLEAN,
            upx_exclude : {<<>>, << <<"*", ".dll">> >>},
            dist_nm : {None, Some(HINT)},
            target_arch : {"", "x86_64", "arm64"},
            codesign_identity : IF is_darwin THEN {"", "id1"} ELSE {""},
            entitlements_file : IF is_darwin THEN {"", "e1.plist", "e2.plist"} ELSE {""},
            strict_arch_validation : {FALSE}] :
        a.upx_exclude /= <<>> => a.upx}

Interps == {Interp(v, w) : v \in {"py310", "py311"}, w \in {"64bit", "32bit"}}

\* every tool succeeds
EnvOk ==
    [cfg |-> FALSE, qt |-> FALSE, pe |-> "ok", strip_ok |-> TRUE, upx_ok |-> TRUE,
     mac |-> "ok"]

InitKey ==
    /\ CacheInit(KeyArgs)
    /\ other \in [a : KeyArgs, interp : Interps]
    /\ FormatIdle /\ SuffixIdle /\ GutsIdle /\ MoreIdle

KeyFirstCall ==
    /\ nCalls = 0
    /\ DoCall(focus, EnvOk)
    /\ UNCHANGED <<platform, interp, CONF, srcBytes, nEdits, focus, other, pureVars, moreVars>>

\* the second call is made by another interpreter
KeyOtherInterpreter ==
    /\ nCalls = 1
    /\ interp /= other.interp
    /\ interp' = other.interp
    /\ UNCHANGED <<platform, CONF, srcBytes, fs, nCalls, nEdits, focus, last, edits, touched>>
    /\ UNCHANGED <<other, pureVars, moreVars>>

KeySecondCall ==
    /\ nCalls = 1
    /\ interp = other.interp
    /\ DoCall(other.a, EnvOk)
    /\ UNCHANGED <<platform, interp, CONF, srcBytes, nEdits, focus, other, pureVars, moreVars>>

NextKey ==
    \/ KeyFirstCall
    \/ KeyOtherInterpreter
    \/ KeySecondCall

SpecKey == InitKey /\ [][NextKey]_vars

----------------------------------------------------------------------------
(* Two processes, each inside one checkCache call, in one cache directory   *)
(* (specification SpecRace).  The calls differ in the destination hint, so  *)
(* in the key of the index.  A process takes four steps: up to the index    *)
(* lookup, up to the run of the queued command, the index update, and the   *)
(* rest; the file system is shared, cache_index is the process's own.       *)

Procs == {1, 2}

\* the context of process p over the shared file system
RaceCtx(p) == [race.procs[p].c EXCEPT !.fs = race.fs]

\* the processes once p has come to pc with context r
RaceAfter(p, r, pc) ==
    [race EXCEPT !.fs = r.fs, !.procs[p].c = r,
                 !.procs[p].pc = IF r.done THEN "done" ELSE pc]

InitRace ==
    /\ CacheInit({NoArgs}) /\ other = NoOther
    /\ FormatIdle /\ SuffixIdle /\ GutsIdle
    /\ PycIdle /\ StripIdle /\ PywinIdle /\ ProbeIdle
    /\ \E strict \in BOOLEAN :
          LET a == [NoArgs EXCEPT !.fnm = XDLL, !.strip = TRUE, !.target_arch = "x86_64",
                                  !.strict_arch_validation = strict]
              hint == [q \in Procs |-> IF q = 1 THEN HINT ELSE << <<"Pkg">>, <<"y", ".dll">> >>]
          IN  race = [fs |-> <<>>,
                      procs |-> [q \in Procs |->
                                   [pc |-> "start", a |-> [a EXCEPT !.dist_nm = Some(hint[q])],
                                    c |-> Ctx0(<<>>, a), alone |-> FALSE, after |-> FALSE]]]

RaceUnchanged == UNCHANGED <<cacheVars, other, pureVars, pyc, strp, pywin, probe>>

\* lines 151-232
RaceLoad ==
    /\ \E p \in Procs :
          /\ race.procs[p].pc = "start"
          /\ LET a == race.procs[p].a
                 c0 == StageNoOp(Ctx0(race.fs, a), CONF, a)
                 c1 == StageCacheDir(c0, CONF, a)
                 c2 == StageLoadIndex(c1)
                 c3 == StageLookup(c2, CONF, srcBytes, a)
                 q == CHOOSE q \in Procs : q /= p
             IN  race' = [RaceAfter(p, c3, "loaded") EXCEPT
                            !.procs[p].alone = race.procs[q].pc \in {"start", "done"},
                            !.procs[p].after = race.procs[q].pc \in {"saved", "done"}]
    /\ RaceUnchanged

\* lines 234-352
RaceProcess ==
    /\ \E p \in Procs, e \in {EnvOk, [EnvOk EXCEPT !.strip_ok = FALSE]} :
          /\ race.procs[p].pc = "loaded"
          /\ LET a == race.procs[p].a
                 c3 == RaceCtx(p)
                 c4 == StageManifest(c3, CONF, srcBytes, a)
                 c5 == StageCmd(c4, CONF, srcBytes, a, e)
                 c6 == StageCopy(c5, srcBytes)
                 c7 == StagePE(c6, CONF, e)
                 c8 == StageRun(c7, e)
             IN  race' = RaceAfter(p, c8, "processed")
    /\ RaceUnchanged

\* lines 354-356
RaceSave ==
    /\ \E p \in Procs :
          /\ race.procs[p].pc = "processed"
          /\ LET c8 == RaceCtx(p)
                 c9 == StageIndex(c8)
             IN  race' = RaceAfter(p, c9, "saved")
    /\ RaceUnchanged

\* lines 366-395
RaceFinish ==
    /\ \E p \in Procs :
          /\ race.procs[p].pc = "saved"
          /\ LET c9 == RaceCtx(p)
                 c10 == StageMac(c9, race.procs[p].a, EnvOk)
             IN  race' = RaceAfter(p, c10, "done")
    /\ RaceUnchanged

NextRace ==
    \/ RaceLoad
    \/ RaceProcess
    \/ RaceSave
    \/ RaceFinish

SpecRace == InitRace /\ [][NextRace]_vars

----------------------------------------------------------------------------
(* checkCache calls whose environment is on record (specification SpecEnv). *)

\* checkCache calls in one behaviour of SpecEnv
MaxEnvCalls == 2

\* the tools a call ran that exited with a non-zero status
FailedTools(trace, e) ==
    {t \in {trace[i][1] : i \in 1..Len(trace)} :
        \/ t = "strip" /\ ~e.strip_ok
        \/ t = "upx" /\ ~e.upx_ok}

NoProbe == [e |-> EnvOk, failed |-> {}, prev |-> [e |-> EnvOk, failed |-> {}]]

\* the record of the environment of a call that decided e and left the trace given
ProbeRecord(trace, e) ==
    [e |-> e, failed |-> FailedTools(trace, e),
     prev |-> [e |-> probe.e, failed |-> probe.failed]]

InitEnv ==
    /\ platform \in Platforms
    /\ interp = Interp("py310", "64bit")
    /\ CONF \in {Conf(r, p) : r \in RedirectConfigs, p \in BOOLEAN}
    /\ srcBytes = [f \in SrcFiles |-> <<1>>]
    /\ fs = <<>>
    /\ nCalls = 0
    /\ nEdits = 0
    /\ focus \in FocusArgs
    /\ last = NoCall
    /\ edits = NoEdits
    /\ touched = {}
    /\ other = NoOther
    /\ FormatIdle /\ SuffixIdle /\ GutsIdle
    /\ PycIdle /\ StripIdle /\ PywinIdle /\ RaceIdle
    /\ probe = NoProbe

EnvUnchanged ==
    UNCHANGED <<platform, interp, CONF, srcBytes, nEdits, edits, focus, other, pureVars,
                pyc, strp, pywin, race>>

\* a top-level call checkCache(a) that decided e and ended as r
Recorded(a, e, r) ==
    /\ fs' = r.fs
    /\ last' = CallRecord(a, r)
    /\ touched' = touched \cup r.used
    /\ nCalls' = nCalls + 1
    /\ probe' = ProbeRecord(r.trace, e)

\* a call that goes no further than the index lookup asks the environment nothing
Quiet(trace) == \A i \in 1..Len(trace) : trace[i][1] = "load_index"

\* the environments in which the manifest embedded in the file cannot be parsed
ParseFailures(a) ==
    {[e EXCEPT !.pe = "parse_error"] :
        e \in {x \in Envs(a) : /\ x.pe = "ok" /\ is_win
                                /\ LowerExt(a.fnm) \in {".pyd", ".dll"}
                                /\ EmbeddedManifest(srcBytes[a.fnm]) /= None}}

\* a checkCache call that runs to its end: a return or an exception
EnvCall ==
    /\ nCalls < MaxEnvCalls
    /\ \E e \in Envs(focus) \cup ParseFailures(focus) :
          /\ Quiet(checkCache(fs, CONF, srcBytes, focus, e).trace) => e = EnvOk
          /\ Recorded(focus, e, checkCache(fs, CONF, srcBytes, focus, e))
    /\ EnvUnchanged

NextEnv == EnvCall

SpecEnv == InitEnv /\ [][NextEnv]_vars

----------------------------------------------------------------------------
(* checkCache calls of which some are cut short between the copy into the   *)
(* cache and the update of the index (specification SpecCrash).             *)

\* the process dies here, if the call has come this far and this is the point
StageCrash(c, at, here) == IF ~c.done /\ at = here THEN Raise(c, "crash") ELSE c

\* a variant in which the process dies once the index is saved
CutShort_IndexSaved(f, conf, src, a, e, at) ==
    LET r == checkCache(f, conf, src, a, [e EXCEPT !.mac = "invalid"])
    IN  StageCrash([r EXCEPT !.done = r.err /= ""], at, at)

\* checkCache up to the update of the index, the process dying at the given point
CutShort(f, conf, src, a, e, at) ==
    LET c0 == StageNoOp(Ctx0(f, a), conf, a)
        c1 == StageCacheDir(c0, conf, a)
        c2 == StageLoadIndex(c1)
        c3 == StageLookup(c2, conf, src, a)
        c4 == StageManifest(c3, conf, src, a)
        c5 == StageCmd(c4, conf, src, a, e)
        c6 == StageCopy(c5, src)
        k6 == StageCrash(c6, at, "copy")
        c7 == StagePE(k6, conf, e)
        k7 == StageCrash(c7, at, "update_resources")
        c8 == StageRun(k7, e)
    IN  StageCrash(c8, at, "run")

\* a top-level call checkCache(a) that ended as r, the process dying
Died(a, r) ==
    /\ r.err = "crash"
    /\ fs' = r.fs
    /\ last' = CallRecord(a, r)
    /\ touched' = touched \cup r.used
    /\ edits' = NoEdits
    /\ nCalls' = nCalls + 1

\* a checkCache call whose process dies after shutil.copy (line 295) and before the
\* index is saved (line 356): after the copy, after the resource update, or after the
\* queued command
CrashedCall ==
    /\ nCalls + nEdits < MaxSteps
    /\ \E e \in Envs(focus), at \in {"copy", "update_resources", "run"} :
          Died(focus, CutShort(fs, CONF, srcBytes, focus, e, at))
    /\ UNCHANGED <<platform, interp, CONF, srcBytes, nEdits, focus>>
    /\ UNCHANGED <<other, pureVars, moreVars>>

\* the bytes of the source file of the calls change, once in a behaviour
SourceChanges ==
    /\ nCalls > 0 /\ srcBytes[focus.fnm] = <<1>>
    /\ srcBytes' = [srcBytes EXCEPT ![focus.fnm] = OtherBytes(@)]
    /\ edits' = [edits EXCEPT !.src = @ \cup {focus.fnm}]
    /\ UNCHANGED <<platform, interp, CONF, fs, nCalls, nEdits, focus, last, touched>>
    /\ UNCHANGED <<other, pureVars, moreVars>>

NextCrash ==
    \/ CheckCacheCall
    \/ CrashedCall
    \/ SourceChanges

SpecCrash == Init /\ [][NextCrash]_vars

----------------------------------------------------------------------------
(* Two source files of one basename, each passed with its own destination   *)
(* hint, in one cache namespace (specification SpecHint).                   *)

\* calls in one behaviour of SpecHint
MaxHintCalls == 4

\* a second file named X.DLL, from another package
BDLL == << <<"b">>, <<"X", ".DLL">> >>

Hints == {HINT, << <<"pkg">>, <<"x", ".dll">> >>, << <<"Other">>, <<"x", ".dll">> >>}

\* focus is the call for the first file; other.a the call for the second one, with the
\* same flags and a hint that differs after os.path.normcase
InitHint ==
    /\ platform \in Platforms
    /\ interp = Interp("py310", "64bit")
    /\ CONF = Conf(<<>>, FALSE)
    /\ srcBytes = [f \in {XDLL, BDLL} |-> IF f = XDLL THEN <<1>> ELSE <<2>>]
    /\ fs = <<>> /\ nCalls = 0 /\ nEdits = 0
    /\ last = NoCall /\ edits = NoEdits /\ touched = {}
    /\ \E a \in FocusArgs : \E h1, h2 \in Hints :
          /\ a.fnm = XDLL
          /\ normcase(h1) /= normcase(h2)
          /\ focus = [a EXCEPT !.dist_nm = Some(h1)]
          /\ other = [a |-> [a EXCEPT !.fnm = BDLL, !.dist_nm = Some(h2)],
                      interp |-> interp]
    /\ FormatIdle /\ SuffixIdle /\ GutsIdle /\ MoreIdle

\* checkCache(A, ..., dist_nm=h1)
HintCallFirst ==
    /\ nCalls < MaxHintCalls
    /\ DoCall(focus, EnvOk)
    /\ UNCHANGED <<platform, interp, CONF, srcBytes, nEdits, focus, other, pureVars, moreVars>>

\* checkCache(B, ..., dist_nm=h2)
HintCallSecond ==
    /\ nCalls < MaxHintCalls
    /\ DoCall(other.a, EnvOk)
    /\ UNCHANGED <<platform, interp, CONF, srcBytes, nEdits, focus, other, pureVars, moreVars>>

NextHint == HintCallFirst \/ HintCallSecond

SpecHint == InitHint /\ [][NextHint]_vars

----------------------------------------------------------------------------
(* The pure functions, each applied to inputs drawn from bounded sets       *)
(* (specifications SpecFormat, SpecSuffix, SpecGuts).                       *)

\* no cache at all
CacheIdle ==
    /\ platform = "linux"
    /\ interp = Interp("py310", "64bit")
    /\ CONF = Conf(<<>>, FALSE)
    /\ srcBytes = [f \in SrcFiles |-> <<1>>]
    /\ fs = <<>>
    /\ nCalls = 0
    /\ nEdits = 0
    /\ focus = NoArgs
    /\ last = NoCall
    /\ edits = NoEdits
    /\ touched = {}
    /\ other = NoOther

SeqsUpTo(S, n) == UNION {[1..k -> S] : k \in 0..n}

FmtSources ==
    {<<>>, <<"/", "s", "a.txt">>, <<"/", "s", ".", "a.txt">>, <<"/", "t", "a.txt">>,
     <<"/", "s", "d">>, <<"/", "s", "*">>, <<"/", "s", "z">>, <<"/", "s", "nope">>,
     <<"a.txt">>}
FmtDests == {<<>>, <<"dest">>, <<"dest", ".">>}

InitFormat ==
    /\ CacheIdle /\ SuffixIdle /\ GutsIdle /\ MoreIdle
    /\ fmtArgs \in [binaries_or_datas : SeqsUpTo(FmtSources \X FmtDests, MaxPairs),
                    workingdir : {<<>>, <<"/", "s">>}]
    /\ fmtResult = [done |-> FALSE, err |-> "", toc |-> {}]

FormatCall ==
    /\ ~fmtResult.done
    /\ fmtResult' = [done |-> TRUE] @@
                    format_binaries_and_datas(fmtArgs.binaries_or_datas, fmtArgs.workingdir)
    /\ UNCHANGED <<moreVars, cacheVars, other, fmtArgs, suffixVars, gutsVars>>

NextFormat == FormatCall

SpecFormat == InitFormat /\ [][NextFormat]_vars

SfxMods == {<<"m">>, <<"s", "o">>}
SfxDests == {pk \o m : pk \in {<<>>, <<"p", ".">>}, m \in SfxMods}
SfxSrcs ==
    {d \o m \o x : d \in {<<>>, <<"/", "b", "/">>, <<"/", "b", "/", "p", "/">>},
                   m \in SfxMods, x \in EXTENSION_SUFFIXES}

InitSuffix ==
    /\ CacheIdle /\ FormatIdle /\ GutsIdle /\ MoreIdle
    /\ sfxArgs \in [dest_name : SfxDests, src_name : SfxSrcs,
                    typecode : {"EXTENSION", "BINARY", "DATA"}]
    /\ sfxResult = <<>>

\* the fixup runs on the entry, and then again on the entry it returned
AddSuffix ==
    /\ Len(sfxResult) < MaxRuns
    /\ sfxResult /= <<>> => sfxResult[Len(sfxResult)].err = ""
    /\ LET dest_name == IF sfxResult = <<>> THEN sfxArgs.dest_name
                        ELSE sfxResult[Len(sfxResult)].dest_name
       IN  sfxResult' = Append(sfxResult,
               add_suffix_to_extension(dest_name, sfxArgs.src_name, sfxArgs.typecode))
    /\ UNCHANGED <<moreVars, cacheVars, other, formatVars, sfxArgs, gutsVars>>

NextSuffix == AddSuffix

SpecSuffix == InitSuffix /\ [][NextSuffix]_vars

GutsEntries ==
    {[dest_name |-> "a", src_name |-> "a.py", typecode |-> "PYMODULE"],
     [dest_name |-> "b", src_name |-> "b.so", typecode |-> "EXTENSION"]}

InitGuts ==
    /\ CacheIdle /\ FormatIdle /\ SuffixIdle /\ MoreIdle
    /\ gutsArgs \in [old_toc : SeqsUpTo(GutsEntries, MaxToc),
                     new_toc : SeqsUpTo(GutsEntries, MaxToc),
                     last_build : 0..MaxTime,
                     mt : [{"a.py", "b.so"} -> 0..MaxTime]]
    /\ gutsResult = [fn |-> "", ret |-> FALSE, log |-> <<>>]

CheckGutsEq ==
    /\ gutsResult.fn = ""
    /\ LET r == check_guts_eq("toc", gutsArgs.old_toc, gutsArgs.new_toc, gutsArgs.last_build)
       IN  gutsResult' = [fn |-> "eq", ret |-> r.ret, log |-> r.log]
    /\ UNCHANGED <<moreVars, cacheVars, other, formatVars, suffixVars, gutsArgs>>

CheckGutsTocMtime ==
    /\ gutsResult.fn = ""
    /\ LET r == check_guts_toc_mtime("toc", gutsArgs.old_toc, gutsArgs.new_toc,
                                     gutsArgs.last_build, gutsArgs.mt)
       IN  gutsResult' = [fn |-> "toc_mtime", ret |-> r.ret, log |-> r.log]
    /\ UNCHANGED <<moreVars, cacheVars, other, formatVars, suffixVars, gutsArgs>>

CheckGutsToc ==
    /\ gutsResult.fn = ""
    /\ LET r == check_guts_toc("toc", gutsArgs.old_toc, gutsArgs.new_toc,
                               gutsArgs.last_build, gutsArgs.mt)
       IN  gutsResult' = [fn |-> "toc", ret |-> r.ret, log |-> r.log]
    /\ UNCHANGED <<moreVars, cacheVars, other, formatVars, suffixVars, gutsArgs>>

NextGuts ==
    \/ CheckGutsEq
    \/ CheckGutsTocMtime
    \/ CheckGutsToc

SpecGuts == InitGuts /\ [][NextGuts]_vars

----------------------------------------------------------------------------
(* compile_pymodule calls for one module, interleaved with touches of the   *)
(* source file, the passing of time, a change of interpreter, and the use   *)
(* of the record written as the precompiled input (specification SpecPyc). *)

\* compile_pymodule calls and changes between them in one behaviour
MaxPycSteps == 4

\* a.b in /s/a/b.py, b.PY, b.pyc and b.txt; package a; a.b__init__ in b__init__.py
PycModules ==
    LET dir == <<"/", "s", "/", "a", "/">>
    IN  {[name |-> <<"a", ".", "b">>, src_path |-> dir \o <<"b">> \o x] :
            x \in {DOT_PY, <<".", "P", "Y">>, DOT_PYC, <<".", "t", "x", "t">>}}
        \cup {[name |-> <<"a">>, src_path |-> dir \o DUNDER_INIT \o DOT_PY],
              [name |-> <<"a", ".", "b">> \o DUNDER_INIT,
               src_path |-> dir \o <<"b">> \o DUNDER_INIT \o DOT_PY]}

\* a record compiled elsewhere, by the interpreter of the given magic number
Precompiled(magic) ==
    magic \o <<0, 0, 0, 0>> \o <<0, 0, 0, 0, 0, 0, 0, 0>>
    \o marshal_dumps(ModuleCode(<<"/", "x", "/", "b", ".", "p", "y">>, "1"))

\* what the file at src_path may hold
SourceBytes(src_path) ==
    IF lower(splitext_ext(src_path)) = DOT_PYC
    THEN {Precompiled(MAGIC_310), Precompiled(MAGIC_311)}
    ELSE {<<"def", "1">>, <<"def", "2">>, <<"(", "1">>}

\* the code_cache argument: none, one with the module, one without it
CodeCaches(m) ==
    {None, Some([n \in {m.name} |-> ModuleCode(m.src_path, "1")]),
     Some([n \in {<<"z">>} |-> ModuleCode(<<"/", "s", "/", "z", ".", "p", "y">>, "1")])}

NoPycCall ==
    [called |-> FALSE, ret |-> None, err |-> "", trace |-> <<>>, code_object |-> None,
     pyc_path |-> <<>>, now |-> 0, before |-> None, magic |-> <<>>,
     src |-> [mtime |-> 0, bytes |-> <<>>], fed |-> None]

InitPyc ==
    /\ CacheIdle /\ FormatIdle /\ SuffixIdle /\ GutsIdle
    /\ StripIdle /\ PywinIdle /\ RaceIdle /\ ProbeIdle
    /\ \E m \in PycModules, magic \in {MAGIC_310} :
       \E cc \in CodeCaches(m), b \in SourceBytes(m.src_path) :
          pyc = [name |-> m.name, src_path |-> m.src_path, code_cache |-> cc,
                 magic |-> magic, src |-> [mtime |-> 0, bytes |-> b],
                 files |-> <<>>, dirs |-> {}, now |-> 1, nSteps |-> 0,
                 dumped |-> None, fed |-> None, last |-> NoPycCall]

PycUnchanged == UNCHANGED <<cacheVars, other, pureVars, strp, pywin, race, probe>>

CompilePymodule ==
    /\ pyc.nSteps < MaxPycSteps
    /\ \E e \in [crash : {"", "compiled", "opened"}] :
          LET r == compile_pymodule(pyc.name, pyc.src_path, WORKPATH, pyc.code_cache, pyc, e)
          IN  pyc' = [pyc EXCEPT
                        !.files = r.files, !.dirs = r.dirs, !.nSteps = @ + 1,
                        !.dumped = IF r.dumped /= None THEN r.dumped ELSE @,
                        !.last = [called |-> TRUE, ret |-> r.ret, err |-> r.err,
                                  trace |-> r.trace, code_object |-> r.code_object,
                                  pyc_path |-> r.pyc_path,
                                  now |-> pyc.now,
                                  before |-> IF r.pyc_path \in DOMAIN pyc.files
                                             THEN Some(pyc.files[r.pyc_path]) ELSE None,
                                  magic |-> pyc.magic, src |-> pyc.src, fed |-> pyc.fed]]
    /\ PycUnchanged

\* the source file is written again, with the same or with other contents
TouchSource ==
    /\ pyc.nSteps < MaxPycSteps
    /\ \E b \in SourceBytes(pyc.src_path) :
          pyc' = [pyc EXCEPT !.src = [mtime |-> pyc.now, bytes |-> b],
                             !.fed = None, !.nSteps = @ + 1]
    /\ PycUnchanged

\* the clock of the file system moves on
Tick ==
    /\ pyc.nSteps < MaxPycSteps
    /\ pyc' = [pyc EXCEPT !.now = @ + 1, !.nSteps = @ + 1]
    /\ PycUnchanged

\* the next call is made by another interpreter
SwitchInterpreter ==
    /\ pyc.nSteps < MaxPycSteps
    /\ pyc' = [pyc EXCEPT !.magic = IF @ = MAGIC_310 THEN MAGIC_311 ELSE MAGIC_310,
                          !.nSteps = @ + 1]
    /\ PycUnchanged

\* the record compile_pymodule wrote becomes the precompiled input
FeedBack ==
    /\ pyc.nSteps < MaxPycSteps
    /\ lower(splitext_ext(pyc.src_path)) = DOT_PYC
    /\ pyc.last.called /\ pyc.last.ret /= None /\ pyc.last.trace /= <<>>
    /\ pyc.files[pyc.last.pyc_path].bytes /= pyc.src.bytes
    /\ pyc' = [pyc EXCEPT !.src = [mtime |-> pyc.now,
                                   bytes |-> pyc.files[pyc.last.pyc_path].bytes],
                          !.fed = pyc.dumped, !.nSteps = @ + 1]
    /\ PycUnchanged

NextPyc ==
    \/ CompilePymodule
    \/ TouchSource
    \/ Tick
    \/ SwitchInterpreter
    \/ FeedBack

SpecPyc == InitPyc /\ [][NextPyc]_vars

----------------------------------------------------------------------------
(* postprocess_binaries_toc_pywin32 applied to a TOC, and again to the list *)
(* it returned (specification SpecPywin32).                                 *)

\* x.pyd, ./x.pyd, sub/x.pyd, win32/x.pyd collected from /sp/win32, /sp/Win32,
\* /sp/pythonwin, /sp/pywin32_system32, /sp/lib, /sp/win32/lib
PywinEntries ==
    {[dest_name |-> d, src_name |-> <<"/", "sp", "/">> \o p \o <<"/", "x.pyd">>,
      typecode |-> t] :
        d \in {<<"x.pyd">>, <<".", "/", "x.pyd">>, <<"sub", "/", "x.pyd">>,
               <<"win32", "/", "x.pyd">>},
        p \in {<<"win32">>, <<"Win32">>, <<"pythonwin">>, <<"pywin32_system32">>,
               <<"lib">>, <<"win32", "/", "lib">>},
        t \in {"EXTENSION"}}
    \cup {[dest_name |-> <<"x.dll">>, src_name |-> <<"x.dll">>, typecode |-> "BINARY"]}

InitPywin ==
    /\ CacheIdle /\ FormatIdle /\ SuffixIdle /\ GutsIdle
    /\ PycIdle /\ StripIdle /\ RaceIdle /\ ProbeIdle
    /\ pywin \in [binaries : SeqsUpTo(PywinEntries, MaxToc), runs : {<<>>}]

PostprocessPywin32 ==
    /\ Len(pywin.runs) < MaxRuns
    /\ LET binaries == IF pywin.runs = <<>> THEN pywin.binaries
                       ELSE pywin.runs[Len(pywin.runs)]
       IN  pywin' = [pywin EXCEPT
                       !.runs = Append(@, postprocess_binaries_toc_pywin32(binaries))]
    /\ UNCHANGED <<cacheVars, other, pureVars, pyc, strp, race, probe>>

NextPywin == PostprocessPywin32

SpecPywin32 == InitPywin /\ [][NextPywin]_vars

----------------------------------------------------------------------------
(* strip_paths_in_code applied to a code object (specification SpecStrip). *)

\* entries of sys.path + CONF['pathex'] in one call
MaxPaths == 2

\* /b/t/p/m, /b/./t/p/m, /b/tt/m, p/m
StripNames ==
    {<<"/", "b", "/", "t", "/", "p", "/", "m">>,
     <<"/", "b", "/", ".", "/", "t", "/", "p", "/", "m">>,
     <<"/", "b", "/", "t", "t", "/", "m">>,
     <<"p", "/", "m">>}

\* /b, /b/t, /b/t/, /b/p, /, '', /b/t/p/m
StripEntries ==
    {<<"/", "b">>, <<"/", "b", "/", "t">>, <<"/", "b", "/", "t", "/">>,
     <<"/", "b", "/", "p">>, <<"/">>, <<>>,
     <<"/", "b", "/", "t", "/", "p", "/", "m">>}

\* a module, a module with a constant, a module with a function holding a function
StripCodes ==
    {Code(f, cs) : f \in StripNames, cs \in {<<>>, <<Const("0")>>}}
    \cup {Code(f, <<Const("0"), Code(g, <<Code(h, <<Const("0")>>)>>)>>) :
             f \in StripNames, g \in StripNames, h \in StripNames}

InitStrip ==
    /\ CacheIdle /\ FormatIdle /\ SuffixIdle /\ GutsIdle
    /\ PycIdle /\ PywinIdle /\ RaceIdle /\ ProbeIdle
    /\ strp \in [co : StripCodes, paths : SeqsUpTo(StripEntries, MaxPaths), result : {None}]

StripPathsInCode ==
    /\ strp.result = None
    /\ strp' = [strp EXCEPT !.result = Some(strip_paths_in_code(strp.co, None, strp.paths))]
    /\ UNCHANGED <<cacheVars, other, pureVars, pyc, pywin, race, probe>>

NextStrip == StripPathsInCode

SpecStrip == InitStrip /\ [][NextStrip]_vars

----------------------------------------------------------------------------
(* Claims about a sequence of checkCache calls (specification Spec). *)

Ops(trace) == {trace[i][1] : i \in 1..Len(trace)}
Pos(trace, op) == {i \in 1..Len(trace) : trace[i][1] = op}

\* the operations that change the cache or run a tool
WriteOps ==
    {"makedirs", "remove", "write_manifest", "copy", "update_resources", "strip", "upx",
     "save_index", "thin", "relocate", "sign"}

IsWinManifest(a) == is_win /\ LowerExt(a.fnm) = ".manifest"

\* the latest call repeats the call before it, with nothing changed in between
IsRepeat == nCalls >= 2 /\ last.same /\ last.edits = NoEdits
\* ... and that first call returned a path in the cache
FirstReturned == last.prev.err = "" /\ ~last.prev.noop /\ last.prev.ret /= None

IndexHit(c) ==
    /\ c.err = ""
    /\ c.stored = Some(c.digest)
    /\ c.ret = Some(c.cachedfile)
    /\ Ops(c.trace) \cap WriteOps = {}

\* C1 as stated: for every file F and flag tuple K not on the no-op path, a call that
\* returns followed immediately by an identical call (nothing changed in between)
\* returns the same path, and the second call is an index hit: no copy, no external
\* command, no index write.
C1_Original ==
    (IsRepeat /\ FirstReturned) => (last.ret = last.prev.ret /\ IndexHit(last))

\* C1, amended: the same for every file F that is not a .manifest file on Windows (a
\* Windows .manifest is rewritten into the cache by every call and never entered in
\* the index).
C1_RepeatIsIndexHit ==
    (IsRepeat /\ FirstReturned /\ ~IsWinManifest(last.a))
        => (last.ret = last.prev.ret /\ IndexHit(last))

C1_Witness ==
    IsRepeat /\ FirstReturned /\ ~IsWinManifest(last.a) /\ IndexHit(last)
    /\ last.a.strip /\ last.a.dist_nm /= None

\* the digest the index file of the latest call holds for its key, None if it holds none
IndexEntry ==
    IF Exists(fs, last.cacheindexfn) /\ fs[last.cacheindexfn].kind = "index"
       /\ last.basenm \in DOMAIN fs[last.cacheindexfn].index
    THEN Some(fs[last.cacheindexfn].index[last.basenm])
    ELSE None

\* the bytes of F changed between the latest call and the call before it, which had
\* the same arguments and returned a path in the cache
BytesChanged ==
    nCalls >= 2 /\ last.same /\ FirstReturned /\ last.prev.bytes /= last.bytes

\* every copy into the cached-file slot comes after a removal of the cached file
RemovedBeforeCopy(c) ==
    /\ Pos(c.trace, "remove") /= {}
    /\ \A i \in Pos(c.trace, "copy") :
          c.trace[i][2] = c.cachedfile
              => \E j \in 1..(i - 1) : c.trace[j] = <<"remove", c.cachedfile>>

Reprocessed(c) ==
    /\ c.stored /= None
    /\ c.stored /= Some(c.digest)
    /\ RemovedBeforeCopy(c)
    /\ <<"copy", c.cachedfile>> \in {c.trace[i] : i \in 1..Len(c.trace)}
    /\ IndexEntry = Some(c.digest)

\* C2 as stated: if the bytes of F change between two calls with the same K and the
\* same index key, the second call computes a digest different from the stored one,
\* removes the previously cached file before the new copy is created, reprocesses F
\* and leaves the index entry for the key equal to the new digest.
C2_Original ==
    (BytesChanged /\ last.err = "") => Reprocessed(last)

\* C2, amended: the same for every file F that is not a .manifest file on Windows (no
\* index entry is kept for one).  The second call finds a stored digest different
\* from the one it computes and removes the cached file before any new copy is made
\* (the removal raising when that file is missing); when the call completes, F has
\* been copied again and the index entry for the key is the new digest.
C2_StaleEntryReprocessed ==
    (BytesChanged /\ ~IsWinManifest(last.a))
        => /\ last.stored /= None /\ last.stored /= Some(last.digest)
           /\ \/ RemovedBeforeCopy(last)
              \/ last.err = "FileNotFoundError" /\ Pos(last.trace, "remove") = {}
           /\ last.err = "" => Reprocessed(last)

C2_Witness ==
    BytesChanged /\ ~IsWinManifest(last.a) /\ last.err = "" /\ Reprocessed(last)
    /\ "strip" \in Ops(last.trace)

\* the condition of C4 on the arguments of the calls and the configuration
NothingToDo ==
    /\ ~focus.strip
    /\ ~(focus.upx /\ platform \in {"win", "cygwin"})
    /\ platform /= "darwin"
    /\ ~(platform = "win" /\ (CONF.binding_redirects /= <<>> \/ CONF.win_private_assemblies))

\* C4: when strip is false, compression is not in effect (not requested, or requested
\* off Windows/Cygwin), the platform is not macOS and no Windows manifest rewrite is
\* configured, a checkCache call returns the source path itself and leaves the file
\* system as it was: no cache directory, no index, no cached file.
C4_NoOpTouchesNothing ==
    [][(nCalls' = nCalls + 1 /\ NothingToDo)
          => (fs' = fs /\ last'.ret = Some(focus.fnm) /\ last'.err = ""
              /\ last'.trace = <<>>)]_vars

C4_Witness ==
    /\ nCalls >= 1 /\ NothingToDo /\ focus.upx /\ last.a = focus
    /\ last.noop /\ last.ret = Some(focus.fnm) /\ fs = <<>>

\* a .manifest file went through checkCache on Windows with redirect rules configured
ManifestRedirected ==
    nCalls >= 1 /\ IsWinManifest(last.a) /\ last.redirects /= <<>> /\ last.err = ""

\* every dependency of the source manifest that a rule matches carries the rule's new
\* version in the manifest written to the cache
ReflectsRedirects ==
    LET srcDeps == (IF last.private THEN MakePrivate(ParseManifest(last.bytes))
                    ELSE ParseManifest(last.bytes)).dependentAssemblies
        out == fs[last.cachedfile].res[1].dependentAssemblies
    IN  /\ Len(out) = Len(srcDeps)
        /\ \A i \in 1..Len(srcDeps) : \A k \in 1..Len(last.redirects) :
              match_binding_redirect(srcDeps[i], last.redirects[k])
                  => out[i].version = last.redirects[k].newVersion

\* C5 as stated: the manifest written reflects the redirected version of every matched
\* dependency, and the digest recorded for it differs from the digest recorded for the
\* same manifest processed without rules.
C5_Original ==
    ManifestRedirected
        => /\ ReflectsRedirects
           /\ IndexEntry /= None
           /\ IndexEntry /= Some(cacheDigest(last.bytes, <<>>))

\* C5, amended: the manifest written reflects the redirected version of every matched
\* dependency, and the digest the call computes differs from the digest of the same
\* bytes without rules; no digest is recorded for a manifest, the index has no entry.
C5_ManifestRedirected ==
    ManifestRedirected
        => /\ ReflectsRedirects
           /\ last.digest /= cacheDigest(last.bytes, <<>>)
           /\ IndexEntry = None

C5_Witness ==
    /\ ManifestRedirected /\ last.redirects = <<R_CRT, R_CC>> /\ last.bytes = <<1>>
    /\ fs[last.cachedfile].res[1].dependentAssemblies[1].version = 3
    /\ fs[last.cachedfile].res[1].dependentAssemblies[2].version = 4

----------------------------------------------------------------------------
(* Claim about two calls with different cache keys (specification SpecKey). *)

----------------------------------------------------------------------------
(* Claims about format_binaries_and_datas (specification SpecFormat). *)

FmtReturned == fmtResult.done /\ fmtResult.err = ""

\* C6 as stated: in the returned set no two entries have the same target path.
C6_Original ==
    FmtReturned
        => \A e1 \in fmtResult.toc : \A e2 \in fmtResult.toc : e1[1] = e2[1] => e1 = e2

\* the two pairs of the input name the same file and the same destination
SamePairTwice ==
    LET b == fmtArgs.binaries_or_datas
    IN  /\ Len(b) = 2
        /\ src_root_paths(b[1][1], fmtArgs.workingdir)
              = src_root_paths(b[2][1], fmtArgs.workingdir)
        /\ \A r \in src_root_paths(b[1][1], fmtArgs.workingdir) : Kind(r) = "file"
        /\ NormSegs(b[1][2], <<>>, FALSE) = NormSegs(b[2][2], <<>>, FALSE)

\* C6, amended: the result is a set of (target, source) pairs of normalized paths: no
\* two entries have structurally equal targets and structurally equal sources, and
\* listing the same existing file with the same destination twice (however the paths
\* are spelled) yields exactly one entry.  Two entries may have the same target when
\* their sources differ.
C6_EntriesUnique ==
    FmtReturned
        => /\ \A e1 \in fmtResult.toc : \A e2 \in fmtResult.toc :
                (NormSegs(e1[1], <<>>, FALSE) = NormSegs(e2[1], <<>>, FALSE)
                 /\ NormSegs(e1[2], <<>>, FALSE) = NormSegs(e2[2], <<>>, FALSE)) => e1 = e2
           /\ SamePairTwice => Cardinality(fmtResult.toc) = 1

C6_Witness ==
    /\ FmtReturned /\ SamePairTwice
    /\ fmtArgs.binaries_or_datas[1] /= fmtArgs.binaries_or_datas[2]
    /\ fmtResult.toc = {<<<<"dest", "a.txt">>, <<"/", "s", "a.txt">>>>}

\* the source spec of pair i as the call resolves it: joined to workingdir when
\* relative, and normalized
Resolved(i) ==
    LET src == fmtArgs.binaries_or_datas[i][1]
    IN  normpath(IF fmtArgs.workingdir /= <<>> /\ ~isabs(src)
                 THEN fmtArgs.workingdir \o src ELSE src)

\* the paths pair i names: the file itself, or what the glob matches
Named(i) == IF Kind(Resolved(i)) = "file" THEN {Resolved(i)} ELSE glob(Resolved(i))

\* the regular files anywhere below directory D, as paths relative to D
FilesBelow(D) ==
    LET q == normpath(path_join(CWD, D))
    IN  {SliceFrom(u, Len(q)) :
            u \in {v \in DOMAIN TREE :
                      TREE[v] = "file" /\ Len(v) > Len(q) /\ SubSeq(v, 1, Len(q)) = q}}

\* the entries the claim gives for source path S with destination T
Mirror(S, T) ==
    IF Kind(S) = "file" THEN {<<normpath(T \o <<S[Len(S)]>>), normpath(S)>>}
    ELSE IF Kind(S) = "dir"
    THEN {<<normpath(T \o rel), normpath(S \o rel)>> : rel \in FilesBelow(S)}
    ELSE {}

\* C7: for a directory source D (literal or glob-matched, resolved against workingdir
\* when relative) with destination T the result holds, for every regular file
\* D/rel/f anywhere below D, the entry (normalized T/rel/f, normalized D/rel/f); for a
\* file source S it holds (normalized T/basename(S), normalized S); and it holds no
\* other entry.
C7_MirrorsSubtree ==
    FmtReturned
        => fmtResult.toc =
              UNION {UNION {Mirror(S, fmtArgs.binaries_or_datas[i][2]) : S \in Named(i)} :
                        i \in 1..Len(fmtArgs.binaries_or_datas)}

\* a glob that matches a file, a directory with a two-level subtree holding a
\* non-regular entry, and an empty directory
C7_Witness ==
    /\ FmtReturned
    /\ fmtArgs.binaries_or_datas = << <<<<"/", "s", "*">>, <<"dest", ".">>>> >>
    /\ fmtResult.toc = {<<<<"dest", "a.txt">>, <<"/", "s", "a.txt">>>>,
                        <<<<"dest", "b.txt">>, <<"/", "s", "d", "b.txt">>>>,
                        <<<<"dest", "e", "c.txt">>, <<"/", "s", "d", "e", "c.txt">>>>}

\* pair i has an empty source, an empty destination, or a source that is neither an
\* existing file nor a glob with a match
BadPair(i) ==
    \/ fmtArgs.binaries_or_datas[i][1] = <<>>
    \/ fmtArgs.binaries_or_datas[i][2] = <<>>
    \/ (Kind(Resolved(i)) /= "file" /\ glob(Resolved(i)) = {})

----------------------------------------------------------------------------
(* Claim about add_suffix_to_extension (specification SpecSuffix). *)

\* the last component of a dotted name
LastComponent(d) == SliceFrom(d, rfind(d, "."))

\* the case of C9: an EXTENSION entry whose source basename starts with the last
\* component of the dotted target
SuffixApplies ==
    /\ sfxArgs.typecode = "EXTENSION"
    /\ SubSeq(basename(sfxArgs.src_name), 1, Len(LastComponent(sfxArgs.dest_name)))
          = LastComponent(sfxArgs.dest_name)

\* the first run returns the target with dots turned into separators, followed by the
\* remainder of the source basename
SuffixCompleted ==
    (Len(sfxResult) >= 1 /\ SuffixApplies)
        => sfxResult[1].dest_name =
              [i \in 1..Len(sfxArgs.dest_name) |->
                  IF sfxArgs.dest_name[i] = "." THEN os_sep ELSE sfxArgs.dest_name[i]]
              \o SliceFrom(basename(sfxArgs.src_name), Len(LastComponent(sfxArgs.dest_name)))

\* re-running the fixup on the result, with the same source, changes nothing
RerunIsNoOp ==
    (Len(sfxResult) >= 2 /\ SuffixApplies) => sfxResult[2] = sfxResult[1]

\* an entry of another kind is returned unchanged
OtherKindsUnchanged ==
    (Len(sfxResult) >= 1 /\ sfxArgs.typecode /= "EXTENSION")
        => sfxResult[1] = [dest_name |-> sfxArgs.dest_name, src_name |-> sfxArgs.src_name,
                           typecode |-> sfxArgs.typecode, err |-> ""]

\* C9 as stated: for an EXTENSION entry with dotted target d and a source whose
\* basename starts with the last component of d, the fixup returns d with dots turned
\* into separators followed by the remainder of the source basename; re-running the
\* fixup on the result with the same source returns the entry unchanged; an entry of
\* any other kind is returned unchanged.
C9_Original == SuffixCompleted /\ RerunIsNoOp /\ OtherKindsUnchanged

----------------------------------------------------------------------------
(* Claim about the rebuild-need predicates (specification SpecGuts). *)

\* C10: _check_guts_eq returns true iff old /= new; _check_guts_toc_mtime returns true
\* iff some entry of the OLD list has a source file modified strictly after
\* last_build (false for an empty list, whatever the new list is); _check_guts_toc
\* returns true iff one of the two does on the same arguments.
C10_RebuildPredicates ==
    LET g == gutsArgs
        changed == g.old_toc /= g.new_toc
        stale == \E i \in 1..Len(g.old_toc) : g.mt[g.old_toc[i].src_name] > g.last_build
    IN  /\ gutsResult.fn = "eq" => gutsResult.ret = changed
        /\ gutsResult.fn = "toc_mtime" => gutsResult.ret = stale
        /\ gutsResult.fn = "toc" => gutsResult.ret = (changed \/ stale)

\* the old list is stale though equal to the new one; the new list alone decides nothing
C10_Witness ==
    /\ gutsResult.fn = "toc" /\ gutsResult.ret
    /\ gutsArgs.old_toc = gutsArgs.new_toc /\ Len(gutsArgs.old_toc) = 2
    /\ gutsArgs.mt["a.py"] <= gutsArgs.last_build
    /\ gutsArgs.mt["b.so"] > gutsArgs.last_build

\* the source path of the first entry of the old list that is newer than last_build
FirstNewer ==
    LET g == gutsArgs
        I == {i \in 1..Len(g.old_toc) : g.mt[g.old_toc[i].src_name] > g.last_build}
    IN  g.old_toc[CHOOSE i \in I : \A j \in I : i <= j].src_name

\* C18: a rebuild-need predicate that returns true has logged one "Building because ...
\* changed" record naming what caused the rebuild: the attribute whose value changed
\* for _check_guts_eq, the source path of the first entry newer than last_build for
\* _check_guts_toc_mtime, the one or the other for _check_guts_toc according to which of
\* the two tests gave true; a predicate that returns false has logged nothing.
C18_TrueIsLogged ==
    gutsResult.fn /= "" =>
        IF gutsResult.ret
        THEN /\ Len(gutsResult.log) = 1
             /\ gutsResult.fn = "eq" => gutsResult.log[1] = "toc"
             /\ gutsResult.fn = "toc_mtime" => gutsResult.log[1] = FirstNewer
             /\ gutsResult.fn = "toc" =>
                   gutsResult.log[1] = IF gutsArgs.old_toc /= gutsArgs.new_toc THEN "toc"
                                       ELSE FirstNewer
        ELSE gutsResult.log = <<>>

\* two files of the old list are newer than last_build, and the first one is logged
C18_Witness ==
    /\ gutsResult.fn = "toc_mtime" /\ gutsResult.ret
    /\ Len(gutsArgs.old_toc) = 2
    /\ gutsArgs.old_toc[1].src_name /= gutsArgs.old_toc[2].src_name
    /\ \A i \in 1..2 : gutsArgs.mt[gutsArgs.old_toc[i].src_name] > gutsArgs.last_build
    /\ gutsResult.log = <<gutsArgs.old_toc[1].src_name>>

----------------------------------------------------------------------------
(* Claims about strip_paths_in_code (specification SpecStrip). *)

\* the file names of a code object and of the code objects among its constants, at any depth
RECURSIVE CodeNames(_)
CodeNames(co) ==
    {co.co_filename}
    \cup UNION {CodeNames(co.co_consts[i]) :
                   i \in {j \in DOMAIN co.co_consts : co.co_consts[j].kind = "code"}}

\* the listed directory p is a prefix of the file name F
DirPrefix(p, F) ==
    \/ p = <<>>
    \/ /\ startswith(F, p)
       /\ \/ p[Len(p)] = os_sep
          \/ Len(F) > Len(p) /\ F[Len(p) + 1] = os_sep

\* F relative to the listed directory p
RelativeTo(p, F) ==
    IF p = <<>> THEN F
    ELSE IF p[Len(p)] = os_sep THEN SliceFrom(F, Len(p))
    ELSE SliceFrom(F, Len(p) + 1)

\* the normalized top-level file name relative to every listed directory that is a prefix
StripRels ==
    LET F == normpath_str(strp.co.co_filename)
    IN  {RelativeTo(strp.paths[i], F) :
            i \in {j \in 1..Len(strp.paths) : DirPrefix(strp.paths[j], F)}}

\* C12: when a listed search path is a prefix of the normalized file name of the
\* top-level code object, strip_paths_in_code gives the top-level code object and every
\* code object nested in its constants, at any depth, the file name left after removing
\* the longest such prefix; that name is relative unless the only prefix listed is ''.
C12_LongestPrefixStripped ==
    strp /= <<>> /\ strp.result /= None /\ StripRels /= {} =>
        LET rel == CHOOSE r \in StripRels : \A q \in StripRels : Len(r) <= Len(q)
        IN  /\ CodeNames(strp.result[1]) = {rel}
            /\ (\E i \in 1..Len(strp.paths) :
                    /\ strp.paths[i] /= <<>>
                    /\ DirPrefix(strp.paths[i], normpath_str(strp.co.co_filename)))
               => rel = <<>> \/ rel[1] /= os_sep

\* a module with a function in a function, of other file names, under two listed
\* prefixes of different lengths, has been stripped
C12_Witness ==
    /\ strp /= <<>> /\ strp.result /= None
    /\ Cardinality(StripRels) = 2
    /\ Cardinality(CodeNames(strp.co)) = 3
    /\ strp.result[1].co_consts[2].co_consts[1].co_filename = <<"p", "/", "m">>

----------------------------------------------------------------------------
(* Claims about compile_pymodule (specification SpecPyc). *)

PycOps == {pyc.last.trace[i] : i \in 1..Len(pyc.last.trace)}

\* the record found by the latest call was newer than the source and of the caller's magic
Reusable ==
    /\ pyc.last.before /= None
    /\ pyc.last.before[1].mtime > pyc.last.src.mtime
    /\ Take(pyc.last.before[1].bytes, 4) = pyc.last.magic

\* the record found was older than the source, or of another magic
Stale ==
    /\ pyc.last.before /= None
    /\ \/ pyc.last.src.mtime > pyc.last.before[1].mtime
       \/ Take(pyc.last.before[1].bytes, 4) /= pyc.last.magic

\* the latest call returned the record it found, and did nothing else
Reused ==
    /\ pyc.last.ret = Some(pyc.last.pyc_path)
    /\ pyc.last.err = ""
    /\ pyc.last.trace = <<>>
    /\ pyc.files[pyc.last.pyc_path] = pyc.last.before[1]

\* the latest call wrote the record anew, under the caller's magic
Rewritten ==
    /\ "write" \in PycOps
    /\ pyc.last.ret = Some(pyc.last.pyc_path)
    /\ pyc.files[pyc.last.pyc_path].mtime = pyc.last.now
    /\ Take(pyc.files[pyc.last.pyc_path].bytes, 4) = pyc.last.magic

\* C11 as stated: a call that runs to its end returns a reusable record as it is, and
\* recompiles and rewrites a stale one.
C11_Original ==
    pyc /= <<>> /\ pyc.last.called /\ pyc.last.err /= "crash" =>
        /\ Reusable => Reused
        /\ Stale => "py_compile" \in PycOps /\ Rewritten

\* C11: a call that finds a record newer than the source and of the running
\* interpreter's magic returns the destination path without compiling or writing; a
\* call that finds a record older than the source, or of another magic, does not reuse
\* it: it goes on to obtain a code object (from code_cache, from py_compile and the file
\* then at the destination, or from the .pyc input) and, when it returns, has written
\* the record anew.
C11_ReusedOrRegenerated ==
    pyc /= <<>> /\ pyc.last.called =>
        /\ Reusable => Reused
        /\ Stale =>
              /\ ~Reused
              /\ PycOps \cap {"code_cache", "py_compile", "read_pyc"} /= {}
                 \/ pyc.last.err = "ValueError"
              /\ pyc.last.err = "" => Rewritten

\* one call reused a record; another one found the source touched and compiled again
C11_Witness ==
    /\ pyc /= <<>> /\ pyc.last.called
    /\ Stale /\ Rewritten /\ "py_compile" \in PycOps
    /\ pyc.last.src.mtime > 0

\* the dumped code object is where the header ends, and the header is as PEP 552 has it
FinishedRecord(bytes, magic, co) ==
    /\ Len(bytes) > 16
    /\ SubSeq(bytes, 1, 4) = magic
    /\ SubSeq(bytes, 5, 8) = <<1, 0, 0, 0>>
    /\ \A i \in 9..16 : bytes[i] = 0
    /\ SubSeq(bytes, 17, Len(bytes)) = marshal_dumps(co)

NoCacheEntry == pyc.code_cache = None \/ pyc.name \notin DOMAIN pyc.code_cache[1]

\* C13: a record compile_pymodule has written is the 16-byte header (magic, flag word 1
\* little-endian, eight zero bytes) followed by the marshalled, path-stripped code
\* object; and a call under the same magic that is given such a record as its .pyc
\* input (nothing to reuse, no code_cache entry) accepts it and unmarshals from offset
\* 16 the code object that was dumped.
C13_RecordFormatRoundTrips ==
    pyc /= <<>> /\ pyc.last.called =>
        /\ "write" \in PycOps =>
              FinishedRecord(pyc.files[pyc.last.pyc_path].bytes, pyc.last.magic,
                             pyc.dumped[1])
        /\ (/\ pyc.last.fed /= None
            /\ Take(pyc.last.src.bytes, 4) = pyc.last.magic
            /\ ~Reusable /\ NoCacheEntry)
           => /\ "read_pyc" \in PycOps
              /\ pyc.last.err /= "ValueError"
              /\ pyc.last.code_object = pyc.last.fed

\* a record written by one call was the .pyc input of the next, which wrote it again
C13_Witness ==
    /\ pyc /= <<>> /\ pyc.last.called
    /\ pyc.last.fed /= None
    /\ "write" \in PycOps
    /\ pyc.last.code_object = pyc.last.fed

\* the destination of the module: the package's __init__ file or a regular module
ExpectedPycPath ==
    LET split_name == split(pyc.name, ".")
        stem == SubSeq(basename(pyc.src_path), 1,
                       Len(basename(pyc.src_path)) - Len(splitext_ext(pyc.src_path)))
    IN  IF stem = DUNDER_INIT
        THEN join_sep(<<WORKPATH>> \o split_name \o <<DUNDER_INIT \o DOT_PYC>>)
        ELSE join_sep(<<WORKPATH>> \o SubSeq(split_name, 1, Len(split_name) - 1)
                      \o <<split_name[Len(split_name)] \o DOT_PYC>>)

\* C14 as stated: the destination is <work_dir>/a/b/c.pyc for a regular module a.b.c and
\* <work_dir>/a/b/__init__.pyc for the module a.b whose source file is the package's
\* __init__ file, and for no other module.
C14_Original ==
    pyc /= <<>> /\ pyc.last.called => pyc.last.pyc_path = ExpectedPycPath

\* the input the latest call was given cannot be used: a .pyc of another magic, or a
\* file that is neither .py nor .pyc
BadInput ==
    LET ext == lower(splitext_ext(pyc.src_path))
    IN  \/ ext = DOT_PYC /\ Take(pyc.last.src.bytes, 4) /= pyc.last.magic
        \/ ext \notin {DOT_PY, DOT_PYC}

\* C15: a call that finds nothing to reuse and no code_cache entry, and is given a .pyc
\* of another magic or a file that is neither .py nor .pyc (whatever the case of the
\* letters), raises ValueError; what is at the destination path is as it was before the
\* call.
C15_BadInputIsFatal ==
    pyc /= <<>> /\ pyc.last.called /\ ~Reusable /\ NoCacheEntry /\ BadInput =>
        /\ pyc.last.err = "ValueError"
        /\ pyc.last.ret = None
        /\ "write" \notin PycOps
        /\ IF pyc.last.before = None
           THEN pyc.last.pyc_path \notin DOMAIN pyc.files
           ELSE pyc.files[pyc.last.pyc_path] = pyc.last.before[1]

\* a .pyc of another magic was refused, and the record of an earlier call is still there
C15_Witness ==
    /\ pyc /= <<>> /\ pyc.last.called /\ ~Reusable /\ NoCacheEntry /\ BadInput
    /\ pyc.last.err = "ValueError"
    /\ pyc.last.before /= None
    /\ pyc.files[pyc.last.pyc_path] = pyc.last.before[1]

----------------------------------------------------------------------------
(* Claims about the order of the stages of checkCache (specification Spec). *)

\* in the latest call every operation a came before every operation b
Before(a, b) == \A i \in Pos(last.trace, a), j \in Pos(last.trace, b) : i < j

\* C19 as stated: a call on macOS that copies the file into the cache thins, relocates
\* and signs the copy, then runs the queued strip command, and only then saves the
\* index; a call that fails in thinning, relocation or signing has not saved the index.
C19_Original ==
    is_darwin /\ nCalls >= 1 /\ Pos(last.trace, "copy") /= {} =>
        /\ Before("copy", "thin") /\ Before("thin", "relocate") /\ Before("relocate", "sign")
        /\ Before("sign", "strip")
        /\ Before("strip", "save_index") /\ Before("sign", "save_index")
        /\ last.err /= "" => Pos(last.trace, "save_index") = {}

\* a call that failed while signing is followed by an index hit on the unsigned file
PoisonedHit ==
    /\ is_darwin /\ nCalls = 2 /\ last.same /\ last.prev.err = "SystemError"
    /\ last.err = "" /\ last.ret /= None /\ Pos(last.trace, "sign") = {}
    /\ "sign" \notin {fs[last.ret[1]].ops[i] : i \in 1..Len(fs[last.ret[1]].ops)}

----------------------------------------------------------------------------
(* Claims about checkCache over a damaged index (specification SpecCorrupt). *)

\* the call being made selects an index.dat that is on disk and cannot be loaded
SelectsCorruptIndex ==
    /\ nCalls' = nCalls + 1
    /\ last'.cacheindexfn /= <<>>
    /\ Exists(fs, last'.cacheindexfn)
    /\ fs[last'.cacheindexfn].kind /= "index"

\* C16: a checkCache call whose cache directory holds an index.dat that cannot be
\* loaded fails with the load error, and leaves the whole cache as it was: the index
\* file is not deleted, reset or overwritten, and no file is copied or removed.
C16_CorruptIndexIsFatal ==
    [][SelectsCorruptIndex
          => (last'.err = "IndexLoadError" /\ last'.ret = None /\ fs' = fs)]_vars

\* a call has failed on the damaged index of a cache directory that holds a cached file
C16_Witness ==
    /\ nCalls >= 2 /\ last.err = "IndexLoadError"
    /\ fs[last.cacheindexfn].kind = "corrupt"
    /\ \E p \in DOMAIN fs :
          fs[p].kind = "file" /\ Dirname(p) = Dirname(last.cacheindexfn)

----------------------------------------------------------------------------
(* Claims about postprocess_binaries_toc_pywin32 (specification SpecPywin32). *)

\* the target has no directory: no separator but the one of a leading './'
AtRoot(dest_name) ==
    \A i \in 1..Len(dest_name) : dest_name[i] = os_sep => i = 2 /\ dest_name[1] = "."

\* the name of the directory the source file is in
ParentName(src_name) ==
    LET i == rfind(src_name, os_sep)
        j == IF i = 0 THEN 0 ELSE rfind(SubSeq(src_name, 1, i - 1), os_sep)
    IN  IF i = 0 THEN <<>> ELSE SubSeq(src_name, j + 1, i - 1)

\* the target the fixup is to give the entry
FixedTarget(entry) ==
    IF /\ AtRoot(entry.dest_name)
       /\ ParentName(entry.src_name)
             \in {<<"win32">>, <<"Win32">>, <<"pythonwin">>, <<"pywin32_system32">>}
    THEN ParentName(entry.src_name) \o <<os_sep>>
         \o (IF Len(entry.dest_name) > 1 THEN SliceFrom(entry.dest_name, 2)
             ELSE entry.dest_name)
    ELSE entry.dest_name

\* C17: postprocess_binaries_toc_pywin32 returns a list of the length and order of its
\* input with source and kind of every entry unchanged; the target becomes
\* <source parent directory name>/<target> exactly for the entries whose target is at
\* the root and whose source is in a directory named, in any case, win32, pythonwin or
\* pywin32_system32, and stays as it is for all others; a second run on the list
\* returned changes nothing.
C17_Pywin32TargetsNested ==
    pywin /= <<>> /\ pywin.runs /= <<>> =>
        /\ Len(pywin.runs[1]) = Len(pywin.binaries)
        /\ \A i \in 1..Len(pywin.binaries) :
              /\ pywin.runs[1][i].src_name = pywin.binaries[i].src_name
              /\ pywin.runs[1][i].typecode = pywin.binaries[i].typecode
              /\ pywin.runs[1][i].dest_name = FixedTarget(pywin.binaries[i])
        /\ Len(pywin.runs) >= 2 => pywin.runs[2] = pywin.runs[1]

\* a list of a root entry from Win32 and an entry left alone has gone through two runs
C17_Witness ==
    /\ pywin /= <<>> /\ Len(pywin.runs) = 2 /\ Len(pywin.binaries) = 2
    /\ pywin.runs[1][1].dest_name = <<"Win32", "/", "x.pyd">>
    /\ pywin.runs[1][2].dest_name = pywin.binaries[2].dest_name

----------------------------------------------------------------------------
(* Claims about two concurrent checkCache calls (specification SpecRace). *)

\* both calls have returned a path
BothReturned ==
    \A p \in Procs :
        /\ race.procs[p].pc = "done"
        /\ race.procs[p].c.err = "" /\ race.procs[p].c.ret /= None

\* the keys of the index on disk, in the cache directory of the two calls
RaceIndexKeys ==
    LET ix == race.procs[1].c.cacheindexfn
    IN  IF Exists(race.fs, ix) THEN DOMAIN race.fs[ix].index ELSE {}

RaceBothKeys == {race.procs[p].c.basenm : p \in Procs}

\* C20: when two checkCache calls for different basenames in one cache directory have
\* both returned, the index on disk holds both entries if one of the calls read the
\* index after the other had saved it, as in every serialized execution, and holds only
\* the entry of the call that saved last if both read the index before either saved it.
C20_LostUpdateOnlyWhenInterleaved ==
    race /= <<>> /\ BothReturned =>
        /\ (\A p \in Procs : race.procs[p].alone) => RaceIndexKeys = RaceBothKeys
        /\ RaceIndexKeys = RaceBothKeys <=> \E p \in Procs : race.procs[p].after
        /\ Cardinality(RaceBothKeys) = 2
        /\ RaceIndexKeys \subseteq RaceBothKeys /\ RaceIndexKeys /= {}

\* both calls have returned, both cached files are there, and the index holds one entry
C20_Witness ==
    /\ race /= <<>> /\ BothReturned
    /\ \A p \in Procs : Exists(race.fs, race.procs[p].c.cachedfile)
    /\ Cardinality(RaceIndexKeys) = 1

----------------------------------------------------------------------------
(* Claims about calls cut short (specification SpecCrash). *)

\* the process of the latest call died between the copy and the update of the index
Crashed == nCalls >= 1 /\ last.err = "crash"

\* the latest call repeats a call whose process died, with nothing changed in between
AfterCrash == nCalls >= 2 /\ last.same /\ last.edits = NoEdits /\ last.prev.err = "crash"

TraceSet(c) == {c.trace[i] : i \in 1..Len(c.trace)}

\* the latest call made the copy, saved its digest and returned the cached path
Recovered ==
    /\ <<"copy", last.cachedfile>> \in TraceSet(last)
    /\ IndexEntry = Some(last.digest)
    /\ last.ret = Some(last.cachedfile)

----------------------------------------------------------------------------
(* Claims about the integrity of the cache (specification Spec). *)

\* the keys of an index file that have no file at their cache path
MissingFiles(ix) == {k \in DOMAIN fs[ix].index : ~Exists(fs, Join(Dirname(ix), k))}

\* C22 as stated: after any sequence of checkCache calls in one namespace, calls that
\* end with a fatal error included, every basename in the persisted index has a cached
\* file at its cache path.
C22_Original ==
    \A ix \in DOMAIN fs : fs[ix].kind = "index" => MissingFiles(ix) = {}

----------------------------------------------------------------------------
(* Claims about a call and what its environment decided (specification     *)
(* SpecEnv).                                                                *)

\* the latest call came to the macOS step
MacStep == is_darwin /\ nCalls >= 1 /\ "save_index" \in Ops(last.trace)

MacOps == {"thin", "relocate", "sign"}

ReturnedCached == last.err = "" /\ last.ret = Some(last.cachedfile)

\* the call failed with SystemError, which names the cached path and wraps the cause
Wrapped(cause) ==
    /\ last.err = "SystemError" /\ last.ret = None
    /\ last.wraps = [path |-> last.cachedfile, cause |-> cause]

\* C23: in the macOS step of checkCache, a file that is no macOS binary is tolerated
\* (the call returns the cached path, nothing is relocated or signed); a binary without
\* the required architecture slice makes the call raise that error when
\* strict_arch_validation is true and is tolerated when it is false; every other
\* failure (thinning, the destination name, relocation, signing) makes the call fail
\* with an error that wraps the original and names the cached path.
C23_MacFailures ==
    MacStep =>
        /\ probe.e.mac = "invalid" => ReturnedCached /\ Ops(last.trace) \cap MacOps = {}
        /\ probe.e.mac = "incompatible" =>
              /\ Ops(last.trace) \cap MacOps = {}
              /\ IF last.a.strict_arch_validation
                 THEN /\ last.err = "IncompatibleBinaryArchError" /\ last.ret = None
                      /\ last.wraps = NoCause
                 ELSE ReturnedCached
        /\ probe.e.mac = "thin_error" => Wrapped("thin_error")
        /\ probe.e.mac \in {"ok", "relocate_error", "sign_error"} /\ last.a.dist_nm = None
              => Wrapped("TypeError")
        /\ probe.e.mac \in {"relocate_error", "sign_error"} /\ last.a.dist_nm /= None
              => Wrapped(probe.e.mac)
        /\ probe.e.mac = "ok" /\ last.a.dist_nm /= None
              => ReturnedCached /\ MacOps \subseteq Ops(last.trace)

C23_Witness ==
    /\ MacStep /\ probe.e.mac = "sign_error" /\ Wrapped("sign_error")
    /\ {"thin", "relocate"} \subseteq Ops(last.trace)
    /\ last.a.strip /\ last.a.strict_arch_validation

\* the latest call had strip and compression both in effect and missed the index
StripAndCompress ==
    /\ nCalls >= 1 /\ last.a.strip /\ UpxEffective(last.a) /\ ~IsWinManifest(last.a)
    /\ last.stored /= Some(last.digest)

\* the strip-only namespace of the latest call: directory, index file, cached file
StripOnlyDir == CacheDir(CONF, [last.a EXCEPT !.upx = FALSE], FALSE)
StripOnlyIndex == Join(StripOnlyDir, <<INDEX_DAT>>)
StripOnlyFile == Join(StripOnlyDir, last.basenm)

\* compression is skipped for the file of the latest call
UpxSkipped == (is_win /\ probe.e.cfg) \/ probe.e.qt

ToolFailed == nCalls >= 1 /\ probe.failed /= {}
ToolFailedBefore == nCalls >= 2 /\ probe.prev.failed /= {}

Tools == {"strip", "upx"}

\* C25: a strip or UPX command that exits non-zero does not fail the checkCache call:
\* the call records the digest in the index and returns the cached path (on macOS it
\* goes on to the macOS step, the only thing that can still fail it), and an identical
\* call made afterwards is an index hit that returns the same path and runs no tool.
C25_ToolFailureIgnored ==
    /\ ToolFailed =>
          /\ IndexEntry = Some(last.digest)
          /\ Exists(fs, last.cachedfile)
          /\ last.err = "" => last.ret = Some(last.cachedfile)
          /\ last.err /= "" => MacStep /\ last.err /= "CalledProcessError"
          /\ ~is_darwin => last.err = ""
    /\ ToolFailedBefore /\ IsRepeat /\ FirstReturned =>
          /\ IndexHit(last) /\ last.ret = last.prev.ret
          /\ Ops(last.trace) \cap Tools = {}

C25_Witness ==
    /\ ToolFailedBefore /\ IsRepeat /\ FirstReturned /\ IndexHit(last)
    /\ probe.prev.failed = {"upx"} /\ fs[last.cachedfile].ops = <<"strip">>

\* the latest call reached the inspection of the manifest embedded in its cached file
PEStep ==
    /\ nCalls >= 1 /\ is_win /\ LowerExt(last.a.fnm) \in {".pyd", ".dll"}
    /\ <<"copy", last.cachedfile>> \in TraceSet(last)

\* the resource the cached file was copied with: that of the stripped file when strip
\* and compression are both in effect, that of the source file otherwise
CopiedManifest ==
    IF last.a.strip /\ UpxEffective(last.a)
    THEN fs[StripOnlyFile].res
    ELSE EmbeddedManifest(last.bytes)

WrittenBack == <<"update_resources", last.cachedfile>> \in TraceSet(last)

\* the conversion and the redirects change nothing in the manifest of the cached file
Redirecting ==
    applyRedirects(IF last.private THEN MakePrivate(CopiedManifest[1])
                   ELSE CopiedManifest[1], last.redirects).redirecting

----------------------------------------------------------------------------
(* Claims about two files of one basename (specification SpecHint).         *)

\* the cached files of a call with arguments a: in its own namespace, and in the
\* strip-only namespace its nested call uses
CachedPaths(a) ==
    {Join(CacheDir(CONF, a, UpxEffective(a)), BaseNm(a)),
     Join(CacheDir(CONF, [a EXCEPT !.upx = FALSE], FALSE), BaseNm(a))}

\* an earlier call with arguments a went through the cache
CalledBefore(a) == \E u \in touched : u[3] \in CachedPaths(a)

TheOther(a) == IF a = focus THEN other.a ELSE focus

\* C27: in one cache namespace, two source files A and B of the same basename and of
\* different contents, passed with destination hints that differ after case
\* normalization, are kept under different index keys: no call for one of them removes
\* or changes a cached file of the other, and a call for either, made after an earlier
\* call for it and with its bytes unchanged, is an index hit on a cached file that
\* holds its own bytes.
C27_HintsKeepFilesApart ==
    [][nCalls' = nCalls + 1 =>
          /\ BaseNm(focus) /= BaseNm(other.a)
          /\ \A p \in CachedPaths(TheOther(last'.a)) :
                /\ \A i \in 1..Len(last'.trace) : last'.trace[i][2] /= p
                /\ Exists(fs, p) => Exists(fs', p) /\ fs'[p] = fs[p]
          /\ CalledBefore(last'.a) /\ ~last'.noop =>
                /\ IndexHit(last')
                /\ fs'[last'.cachedfile].bytes = srcBytes[last'.a.fnm]
          /\ ~last'.noop => last'.err = "" /\ last'.basenm = BaseNm(last'.a)
    ]_vars

\* B is called between two calls for A; the second is an index hit
C27_Witness ==
    /\ nCalls >= 3 /\ ~last.same /\ IndexHit(last) /\ last.a = focus
    /\ \A p \in CachedPaths(other.a) : Exists(fs, p) /\ fs[p].bytes = <<2>>
    /\ fs[last.cachedfile].bytes = <<1>>
    /\ LowerPath(BaseNm(focus)) = LowerPath(BaseNm(other.a))

----------------------------------------------------------------------------
(* Claims about the private-assembly setting (specification Spec).          *)

\* the latest call is for a .pyd/.dll on Windows whose cached file embeds a manifest
CachedWithManifest ==
    /\ nCalls >= 1 /\ is_win /\ LowerExt(last.a.fnm) \in {".pyd", ".dll"}
    /\ last.ret = Some(last.cachedfile) /\ Exists(fs, last.cachedfile)
    /\ fs[last.cachedfile].res /= None

\* only the private-assembly setting changed between the latest call and the call
\* before it, which had the same arguments and returned a path in the cache
OnlyPrivateChanged ==
    /\ nCalls >= 2 /\ last.same /\ FirstReturned /\ ~last.noop
    /\ last.edits = [NoEdits EXCEPT !.private = TRUE]
    /\ last.prev.bytes = last.bytes

\* C28 as stated: an index hit returns only a cached file produced under the current
\* private-assembly setting: a call made after the setting alone was changed is no index
\* hit, it copies and processes the file again, and the manifest of the file it returns
\* is converted exactly when the setting is on.
C28_Original ==
    OnlyPrivateChanged =>
        /\ ~IndexHit(last) /\ "copy" \in Ops(last.trace)
        /\ CachedWithManifest =>
              (last.private <=> fs[last.cachedfile].res[1].publicKeyToken = "")

----------------------------------------------------------------------------
(* Claims about what compile_pymodule leaves at the destination             *)
(* (specification SpecPyc).                                                 *)

DestPath == pyc_path(pyc.name, pyc.src_path, WORKPATH)

\* the reuse check of a call made now would accept the file at the destination
Accepted == pyc /= <<>> /\ can_reuse(pyc, DestPath)

\* the code object has no search path left in its file name
Scrubbed(co) == strip_paths_in_code(co, None, PYC_SEARCH_PATHS) = co

\* the module is compiled from a source text that compiles
FromSource ==
    /\ NoCacheEntry
    /\ lower(splitext_ext(pyc.src_path)) = DOT_PY
    /\ pyc.src.bytes[1] = "def"

\* C29 as stated: wherever a compile_pymodule call stops (return, error, or crash between
\* two file operations), a file at the destination that the reuse check accepts is a
\* finished record: the fixed header (flag word 1, eight zero bytes), then a
\* path-scrubbed code object, compiled from the current contents of the source.
C29_Original ==
    Accepted =>
        LET b == pyc.files[DestPath].bytes
        IN  /\ Len(b) > 16
            /\ SubSeq(b, 5, 8) = <<1, 0, 0, 0>>
            /\ \A i \in 9..16 : b[i] = 0
            /\ marshal_loads(SliceFrom(b, 16)) /= None
            /\ Scrubbed(marshal_loads(SliceFrom(b, 16))[1])
            /\ FromSource =>
                  marshal_loads(SliceFrom(b, 16))[1].co_consts[1].value = pyc.src.bytes[2]

====
